---- MODULE Spec2Model ----
(***************************************************************************)
(* Shade Perfection: the superellipse curve engine (SuperellipseMath), the *)
(* palette distributor (ColorGenerator) and the UI state machine           *)
(* (AppState / UIController) that issues the generation requests.          *)
(*                                                                         *)
(* Numbers.  The program computes in IEEE doubles.  Here a number is an    *)
(* exact rational [n |-> numerator, d |-> denominator > 0] in lowest       *)
(* terms; +, -, *, / are exact.  The library functions that are not        *)
(* rational are modelled at a stated resolution: Math.sqrt rounds down to  *)
(* a multiple of 1/LenScale, Math.pow(_, 1.5) and Math.pow(_, 1/1.5) round *)
(* down to a multiple of 1/PowScale, and the samples                       *)
(* Math.pow(Math.cos(t), 2/n), Math.pow(Math.sin(t), 2/n) of a curve are   *)
(* inputs drawn from the grid {0, 1/Grid, ..., 1}.                         *)
(***************************************************************************)
EXTENDS Integers, Sequences, FiniteSets, TLC

VARIABLES
  \* SuperellipseMath.generateCurvePoints: the loop and its result
  i, points, totalArcLength, curvePoints,
  \* the sample indices at which computing the coordinates raised an exception
  raised,
  \* results of the lookups made on the finished curve
  lookup,
  \* SuperellipseMath.findExponent: the call in progress
  search,
  \* ColorGenerator.generatePalette: the parameters and the returned colors
  params, colors,
  \* ColorGenerator.generateColorNames: the base name and the named colors
  colorName, namedColors,
  \* ColorGenerator._calculateArcLength: the arguments and the result of a call
  placement,
  \* SuperellipseMath.generateDesaturatedCurve: the arguments of a call, its
  \* result and the main curve of the same exponent
  desaturatedCurve,
  \* AppState fields and the DOM state the UIController reads and writes
  state, dom, requests,
  \* the Figma document: its local variables and the next variable id; the
  \* last two imports handled by the VariableManager and the local variables
  \* between them
  localVariables, nextVariableId, lastImport, previousImport, variablesBefore,
  \* MessageHandler.handleMessage: the handler of each message, the Figma
  \* document and UI channel it acts on, and the fields of the VariableManager
  \* and the FrameBuilder the handlers share
  handlers, figma, variableManager, frameBuilder,
  \* AppState._notify: the notifications being handled by the observer, the
  \* notifications and generatePalette calls of the current cascade, and the
  \* notifications raised by the mutators of AppState so far
  callStack, cascade, handled

vars == <<i, points, totalArcLength, curvePoints, raised, lookup, search, params, colors,
          colorName, namedColors, placement, desaturatedCurve,
          state, dom, requests,
          localVariables, nextVariableId, lastImport, previousImport, variablesBefore,
          handlers, figma, variableManager, frameBuilder,
          callStack, cascade, handled>>

curveVars == <<i, points, totalArcLength, curvePoints, raised, lookup, search>>
paletteVars == <<params, colors, colorName, namedColors, placement, desaturatedCurve>>
notifyVars == <<callStack, cascade, handled>>
uiVars == <<state, dom, requests, notifyVars>>
messageVars == <<handlers, figma, variableManager, frameBuilder>>
importVars == <<localVariables, nextVariableId, lastImport, previousImport, variablesBefore>>
figmaVars == <<importVars, messageVars>>

-----------------------------------------------------------------------------
(* Bounds of the model *)

\* samples of a curve lie on the grid {0, 1/Grid, ..., 1}
Grid == 2
\* the sampling loop runs i = 0 .. Resolution (CONFIG.CURVE_RESOLUTION segments)
Resolution == 4
\* Math.sqrt is computed to a multiple of 1/LenScale
LenScale == 10
\* Math.pow(_, 1.5) and Math.pow(_, 1/1.5) are computed to a multiple of 1/PowScale
PowScale == 400
\* largest colorCount of a generation request
MaxCount == 5
\* the arc lengths looked up on a curve are the multiples of 1/QueryDen
\* from -1/QueryDen to 1 + 1/QueryDen
QueryDen == 4

-----------------------------------------------------------------------------
(* Exact rational arithmetic *)

Abs(a) == IF a < 0 THEN -a ELSE a
Min(a, b) == IF a <= b THEN a ELSE b
Max(a, b) == IF a >= b THEN a ELSE b

RECURSIVE GCD(_, _)
GCD(a, b) == IF b = 0 THEN a ELSE GCD(b, a % b)

\* the value of a division by zero (JS: NaN or an infinity); it absorbs
\* every operation and compares false with everything
NaN == [n |-> 0, d |-> 0]
IsNaN(p) == p.d = 0

\* the rational a/b in lowest terms with a positive denominator
Rat(a, b) ==
  IF b = 0 THEN NaN
  ELSE LET g == GCD(Abs(a), Abs(b))
           s == IF b < 0 THEN -1 ELSE 1
       IN  [n |-> s * (a \div g), d |-> s * (b \div g)]

Zero == [n |-> 0, d |-> 1]
One == [n |-> 1, d |-> 1]
RInt(k) == [n |-> k, d |-> 1]

RAdd(p, q) ==
  IF IsNaN(p) \/ IsNaN(q) THEN NaN
  ELSE LET g == GCD(p.d, q.d)
       IN  Rat(p.n * (q.d \div g) + q.n * (p.d \div g), (p.d \div g) * q.d)
RNeg(p) == [n |-> -p.n, d |-> p.d]
RSub(p, q) == RAdd(p, RNeg(q))
RMul(p, q) ==
  IF IsNaN(p) \/ IsNaN(q) THEN NaN
  ELSE LET g1 == GCD(Abs(p.n), q.d)
           g2 == GCD(Abs(q.n), p.d)
       IN  Rat((p.n \div g1) * (q.n \div g2), (p.d \div g2) * (q.d \div g1))
RDiv(p, q) ==
  IF IsNaN(p) \/ IsNaN(q) \/ q.n = 0 THEN NaN
  ELSE RMul(p, IF q.n < 0 THEN [n |-> -q.d, d |-> -q.n] ELSE [n |-> q.d, d |-> q.n])
\* comparisons, on the common denominator
RLt(p, q) ==
  ~IsNaN(p) /\ ~IsNaN(q)
    /\ p.n * (q.d \div GCD(p.d, q.d)) < q.n * (p.d \div GCD(p.d, q.d))
RLe(p, q) ==
  ~IsNaN(p) /\ ~IsNaN(q)
    /\ p.n * (q.d \div GCD(p.d, q.d)) <= q.n * (p.d \div GCD(p.d, q.d))
\* Math.min and Math.max of two numbers
RMin(p, q) == IF IsNaN(p) \/ IsNaN(q) THEN NaN ELSE IF RLe(p, q) THEN p ELSE q
RMax(p, q) == IF IsNaN(p) \/ IsNaN(q) THEN NaN ELSE IF RLe(q, p) THEN p ELSE q
\* Math.floor and Math.round (round half up) of a rational
RFloor(p) == p.n \div p.d
RRound(p) == (2 * p.n + p.d) \div (2 * p.d)

\* the largest r in lo..hi with r^k <= v  (0 <= lo^k <= v)
RECURSIVE FloorRoot(_, _, _, _)
FloorRoot(v, k, lo, hi) ==
  IF lo >= hi THEN lo
  ELSE LET mid == (lo + hi + 1) \div 2
           pw == IF k = 2 THEN mid * mid ELSE mid * mid * mid
       IN  IF pw <= v THEN FloorRoot(v, k, mid, hi) ELSE FloorRoot(v, k, lo, mid - 1)

\* floor(a * b / c) for 0 <= b <= c, computed without forming a * b
MulDivFloor(a, b, c) == (a \div c) * b + ((a % c) * b) \div c



-----------------------------------------------------------------------------
(* SuperellipseMath.findExponent

   The bisection works on Math.pow(x, n) for real n, which no rational
   arithmetic gives.  Here a coordinate x in (0, 1] is given by its
   logarithm: lx = -log2(x) in units of 1/LogScale, an exponent n is a
   multiple of 1/ExpScale, and a value of Math.pow is a multiple of
   1/PowUnit.  Math.pow(x, n) = 2^-(lx * n) is computed from a table of
   2^-(j/8), j = 0..8, with linear interpolation between its entries: it is
   continuous and strictly decreasing in n, as the real function is. *)

\* -log2 of a coordinate is a multiple of 1/LogScale
LogScale == 100
\* an exponent is a multiple of 1/ExpScale
ExpScale == 1000
\* a value of Math.pow is a multiple of 1/PowUnit
PowUnit == 65536

\* 2^-(j/8) in units of 1/65536, j = 1..7
Exp2Eighths == <<60097, 55109, 50535, 46341, 42495, 38968, 35734>>

\* 2^-(j/8) in units of 1/PowUnit, j = 0..8
Exp2Table(j) ==
  IF j = 0 THEN PowUnit ELSE IF j = 8 THEN PowUnit \div 2 ELSE Exp2Eighths[j]

\* 2^k for 0 <= k
RECURSIVE TwoTo(_)
TwoTo(k) == IF k = 0 THEN 1 ELSE 2 * TwoTo(k - 1)

\* 2^-(z / (LogScale * ExpScale)) in units of 1/PowUnit, z >= 0
Exp2Neg(z) ==
  LET whole == z \div (LogScale * ExpScale)
      eighths == (z % (LogScale * ExpScale)) * 8
  IN  IF whole > 16 THEN 0
      ELSE (Exp2Table(eighths \div (LogScale * ExpScale))
            - MulDivFloor(Exp2Table(eighths \div (LogScale * ExpScale))
                            - Exp2Table(eighths \div (LogScale * ExpScale) + 1),
                          eighths % (LogScale * ExpScale), LogScale * ExpScale))
           \div TwoTo(whole)

\* Math.pow(x, n): lx is -log2(x) in units of 1/LogScale, n an exponent in
\* units of 1/ExpScale
Pow(lx, n) == Exp2Neg(lx * n)

\* the coordinate itself, in units of 1/PowUnit
Coordinate(lx) == Pow(lx, ExpScale)

SUPERELLIPSE_N_MIN == ExpScale \div 10
SUPERELLIPSE_N_MAX == 25 * ExpScale
SUPERELLIPSE_TOLERANCE == PowUnit \div 1000
SUPERELLIPSE_MAX_ITERATIONS == 100

\* x <= minThreshold (0.001) and x >= maxThreshold (0.99)
AtMostMinThreshold(lx) == Coordinate(lx) * 1000 <= PowUnit
AtLeastMaxThreshold(lx) == Coordinate(lx) * 100 >= 99 * PowUnit

\* Math.pow(x, n) + Math.pow(y, n) - 1
Residual(lx, ly, n) == Pow(lx, n) + Pow(ly, n) - PowUnit

\* the coordinates findExponent is called with, as -log2 in units of
\* 1/LogScale: about 0.993, 0.979, 0.707, 0.5, 0.125, 0.00195 and 0.00049
LogInputs == {1, 3, 50, 100, 300, 900, 1100}

NoSearch == [pc |-> "idle"]

\* the state of a call that returns n after the given number of iterations
ReturnedWith(lx, ly, n, iterations) ==
  [pc |-> "returned", x |-> lx, y |-> ly, result |-> n, iterations |-> iterations]

\* an entry that returns N_MIN only when both coordinates are at most
\* minThreshold
EnterOnlyBothAtMinThreshold(lx, ly) ==
  IF AtMostMinThreshold(lx) /\ AtMostMinThreshold(ly)
  THEN ReturnedWith(lx, ly, SUPERELLIPSE_N_MIN, 0)
  ELSE IF AtLeastMaxThreshold(lx) /\ AtLeastMaxThreshold(ly)
  THEN ReturnedWith(lx, ly, SUPERELLIPSE_N_MAX, 0)
  ELSE [pc |-> "loop", x |-> lx, y |-> ly, nMin |-> SUPERELLIPSE_N_MIN,
        nMax |-> SUPERELLIPSE_N_MAX, i |-> 0]

\* the three early returns (lines 631-636), or the entry of the loop (lines
\* 638-641)
Enter(lx, ly) ==
  IF AtMostMinThreshold(lx) /\ AtMostMinThreshold(ly)
  THEN ReturnedWith(lx, ly, SUPERELLIPSE_N_MIN, 0)
  ELSE IF AtMostMinThreshold(lx) \/ AtMostMinThreshold(ly)
  THEN ReturnedWith(lx, ly, SUPERELLIPSE_N_MIN, 0)
  ELSE IF AtLeastMaxThreshold(lx) /\ AtLeastMaxThreshold(ly)
  THEN ReturnedWith(lx, ly, SUPERELLIPSE_N_MAX, 0)
  ELSE [pc |-> "loop", x |-> lx, y |-> ly, nMin |-> SUPERELLIPSE_N_MIN,
        nMax |-> SUPERELLIPSE_N_MAX, i |-> 0]

\* a call of findExponent(x, y) (line 627)
FindExponentCall ==
  /\ search = NoSearch
  /\ \E lx \in LogInputs, ly \in LogInputs : search' = Enter(lx, ly)
  /\ UNCHANGED <<i, points, totalArcLength, curvePoints, raised, lookup, paletteVars, uiVars, figmaVars>>

\* a bisection step that keeps the half of the bracket without the sign
\* change
NarrowedBracketWrongHalf(nMin, nMax, nMid, f, fMin) ==
  IF (f < 0 /\ fMin > 0) \/ (f > 0 /\ fMin < 0)
  THEN [nMin |-> nMid, nMax |-> nMax]
  ELSE [nMin |-> nMin, nMax |-> nMid]

\* the new bracket of one bisection step (lines 649-651): f * fMin < 0 is
\* decided on the signs of f and fMin
NarrowedBracket(nMin, nMax, nMid, f, fMin) ==
  IF (f < 0 /\ fMin > 0) \/ (f > 0 /\ fMin < 0)
  THEN [nMin |-> nMin, nMax |-> nMid]
  ELSE [nMin |-> nMid, nMax |-> nMax]

\* one iteration of the loop (lines 642-652)
BisectStep ==
  /\ search.pc = "loop"
  /\ search.i < SUPERELLIPSE_MAX_ITERATIONS
  /\ \E nMid \in {(search.nMin + search.nMax) \div 2} :
     \E f \in {Residual(search.x, search.y, nMid)} :
     \E bracket \in {NarrowedBracket(search.nMin, search.nMax, nMid, f,
                                     Residual(search.x, search.y, search.nMin))} :
       search' =
         IF Abs(f) < SUPERELLIPSE_TOLERANCE
         THEN ReturnedWith(search.x, search.y, Min(nMid, SUPERELLIPSE_N_MAX),
                           search.i + 1)
         ELSE [search EXCEPT !.nMin = bracket.nMin, !.nMax = bracket.nMax,
                             !.i = search.i + 1]
  /\ UNCHANGED <<i, points, totalArcLength, curvePoints, raised, lookup, paletteVars, uiVars, figmaVars>>

\* the return after the loop has run out (line 654)
FindExponentExit ==
  /\ search.pc = "loop"
  /\ search.i >= SUPERELLIPSE_MAX_ITERATIONS
  /\ search' = ReturnedWith(search.x, search.y,
                            Min((search.nMin + search.nMax) \div 2, SUPERELLIPSE_N_MAX),
                            search.i)
  /\ UNCHANGED <<i, points, totalArcLength, curvePoints, raised, lookup, paletteVars, uiVars, figmaVars>>

-----------------------------------------------------------------------------
(* SuperellipseMath: curve generation *)

\* element k (0-based, as in the source) of a sequence
At(seq, k) == seq[k + 1]

\* Math.sqrt, rounded down to a multiple of 1/LenScale
Sqrt(p) ==
  LET v == (p.n * LenScale * LenScale) \div p.d
  IN  Rat(FloorRoot(v, 2, 0, v), LenScale)

\* Math.max(0, Math.min(1, p))
Clamp01(p) == RMax(Zero, RMin(One, p))

\* segmentLength > minSegmentLength (1e-10): every modelled length is a
\* multiple of 1/LenScale, and 1e-10 lies strictly between 0 and 1/LenScale
AboveMinSegmentLength(len) == RLt(Zero, len)

\* the points of the grid
GridPoints == {<<Rat(a, Grid), Rat(b, Grid)>> : a \in 0..Grid, b \in 0..Grid}

\* the values Math.pow(Math.cos(t), 2/n), Math.pow(Math.sin(t), 2/n) can take
\* at sample idx, prev being the values at sample idx - 1: on the grid,
\* (1, 0) at t = 0, x non-increasing and y non-decreasing in t
RawSamples(idx, prev) ==
  IF idx = 0 THEN {<<One, Zero>>}
  ELSE {r \in GridPoints : RLe(r[1], prev[1]) /\ RLe(prev[2], r[2])}

\* Euclidean length of the segment between two points
SegmentLength(p1, p2) ==
  LET dx == RSub(p2.x, p1.x)
      dy == RSub(p2.y, p1.y)
  IN  Sqrt(RAdd(RMul(dx, dx), RMul(dy, dy)))

\* the iteration with the arc length of the point left as it was when the
\* point was created, before the segment is added
AddSampleStaleArcLength(cur, idx, px, py) ==
  LET clampedX == Clamp01(px)
      clampedY == Clamp01(py)
      seg == IF idx > 0
             THEN SegmentLength(At(cur.points, idx - 1), [x |-> clampedX, y |-> clampedY])
             ELSE Zero
      total == IF idx > 0 /\ AboveMinSegmentLength(seg)
               THEN RAdd(cur.total, seg) ELSE cur.total
      point == [t |-> idx, x |-> clampedX, y |-> clampedY, arcLength |-> cur.total]
  IN  [points |-> Append(cur.points, point), total |-> total]

\* one iteration of the sampling loop: sample idx with coordinates (px, py)
\* is clamped, the arc length is accumulated and the point is pushed
AddSample(cur, idx, px, py) ==
  LET clampedX == Clamp01(px)
      clampedY == Clamp01(py)
      seg == IF idx > 0
             THEN SegmentLength(At(cur.points, idx - 1), [x |-> clampedX, y |-> clampedY])
             ELSE Zero
      total == IF idx > 0 /\ AboveMinSegmentLength(seg)
               THEN RAdd(cur.total, seg) ELSE cur.total
      point == [t |-> idx, x |-> clampedX, y |-> clampedY, arcLength |-> total]
  IN  [points |-> Append(cur.points, point), total |-> total]

\* the normalisation after the loop: arcLength / totalArcLength, or the
\* index-based fallback when the total arc length is zero
NormalizeCurve(pts, total) ==
  [k \in 1..Len(pts) |->
     [t |-> pts[k].t, x |-> pts[k].x, y |-> pts[k].y, arcLength |-> pts[k].arcLength,
      normalizedArcLength |->
        IF RLt(Zero, total) THEN RDiv(pts[k].arcLength, total)
        ELSE RDiv(RInt(k - 1), RInt(Len(pts) - 1))]]

\* the whole of generateCurvePoints on the sample values raw[1..Resolution+1]
RECURSIVE SampleFrom(_, _, _)
SampleFrom(raw, idx, cur) ==
  IF idx > Resolution THEN cur
  ELSE SampleFrom(raw, idx + 1, AddSample(cur, idx, At(raw, idx)[1], At(raw, idx)[2]))

\* the normalisation of the result of the loop
Normalized(cur) == NormalizeCurve(cur.points, cur.total)

GenerateCurvePoints(raw) ==
  Normalized(SampleFrom(raw, 0, [points |-> <<>>, total |-> Zero]))

-----------------------------------------------------------------------------
(* SuperellipseMath: lookups on a curve *)

\* the scan returning the sample that ends the pair, without interpolation
RECURSIVE ScanArcLengthToSample(_, _, _)
ScanArcLengthToSample(q, curve, idx) ==
  IF idx >= Len(curve) THEN At(curve, Len(curve) - 1)
  ELSE IF RLe(At(curve, idx - 1).normalizedArcLength, q)
          /\ RLe(q, At(curve, idx).normalizedArcLength)
       THEN At(curve, idx)
       ELSE ScanArcLengthToSample(q, curve, idx + 1)

\* the scan of findPointAtArcLength from pair idx on
RECURSIVE ScanArcLength(_, _, _)
ScanArcLength(q, curve, idx) ==
  IF idx >= Len(curve) THEN At(curve, Len(curve) - 1)
  ELSE LET prevPoint == At(curve, idx - 1)
           currPoint == At(curve, idx)
       IN  IF RLe(prevPoint.normalizedArcLength, q) /\ RLe(q, currPoint.normalizedArcLength)
           THEN LET tt == RDiv(RSub(q, prevPoint.normalizedArcLength),
                               RSub(currPoint.normalizedArcLength,
                                    prevPoint.normalizedArcLength))
                IN  [x |-> RAdd(prevPoint.x, RMul(tt, RSub(currPoint.x, prevPoint.x))),
                     y |-> RAdd(prevPoint.y, RMul(tt, RSub(currPoint.y, prevPoint.y))),
                     normalizedArcLength |-> q]
           ELSE ScanArcLength(q, curve, idx + 1)

\* the lookup without its two boundary returns
FindPointAtArcLengthUnclamped(q, curve) == ScanArcLength(q, curve, 1)

\* the lookup with the scan starting at the second pair of samples
FindPointAtArcLengthFromSecondPair(q, curve) ==
  IF RLe(q, Zero) THEN At(curve, 0)
  ELSE IF RLe(One, q) THEN At(curve, Len(curve) - 1)
  ELSE ScanArcLength(q, curve, 2)

FindPointAtArcLength(q, curve) ==
  IF RLe(q, Zero) THEN At(curve, 0)
  ELSE IF RLe(One, q) THEN At(curve, Len(curve) - 1)
  ELSE ScanArcLength(q, curve, 1)

\* squared distance from a point to the target
DistSq(p, tx, ty) ==
  LET dx == RSub(p.x, tx)
      dy == RSub(p.y, ty)
  IN  RAdd(RMul(dx, dx), RMul(dy, dy))

\* the coarse pass of findClosestPoint: the index of the first sample of
\* minimum squared distance, best being the current [index, distance]
RECURSIVE CoarseScan(_, _, _, _, _)
CoarseScan(curve, tx, ty, idx, best) ==
  IF idx >= Len(curve) THEN best
  ELSE LET distance == DistSq(At(curve, idx), tx, ty)
       IN  CoarseScan(curve, tx, ty, idx + 1,
                      IF best.index < 0 \/ RLt(distance, best.distance)
                      THEN [index |-> idx, distance |-> distance] ELSE best)

searchRadius == 3

\* the refinement pass: the target is projected on the segments idx .. endIdx-1
RECURSIVE Refine(_, _, _, _, _, _)
Refine(curve, tx, ty, idx, endIdx, best) ==
  IF idx >= endIdx THEN best
  ELSE LET p1 == At(curve, idx)
           p2 == At(curve, idx + 1)
           segmentVecX == RSub(p2.x, p1.x)
           segmentVecY == RSub(p2.y, p1.y)
           toTargetX == RSub(tx, p1.x)
           toTargetY == RSub(ty, p1.y)
           segmentLengthSq == RAdd(RMul(segmentVecX, segmentVecX),
                                   RMul(segmentVecY, segmentVecY))
           tt == RMax(Zero, RMin(One,
                   RDiv(RAdd(RMul(toTargetX, segmentVecX), RMul(toTargetY, segmentVecY)),
                        segmentLengthSq)))
           projected == [x |-> RAdd(p1.x, RMul(tt, segmentVecX)),
                         y |-> RAdd(p1.y, RMul(tt, segmentVecY)),
                         normalizedArcLength |->
                           RAdd(p1.normalizedArcLength,
                                RMul(tt, RSub(p2.normalizedArcLength,
                                              p1.normalizedArcLength)))]
           distance == DistSq(projected, tx, ty)
       IN  Refine(curve, tx, ty, idx + 1, endIdx,
                  IF AboveMinSegmentLength(segmentLengthSq) /\ RLt(distance, best.distance)
                  THEN [point |-> projected, distance |-> distance] ELSE best)

\* the search with the refinement pass over every segment of the curve
FindClosestPointEverySegment(tx, ty, curve) ==
  LET coarse == CoarseScan(curve, tx, ty, 0, [index |-> -1, distance |-> Zero])
      closestIndex == IF coarse.index < 0 THEN 0 ELSE coarse.index
  IN  Refine(curve, tx, ty, 0, Len(curve) - 1,
             [point |-> At(curve, closestIndex), distance |-> coarse.distance]).point

FindClosestPoint(tx, ty, curve) ==
  LET coarse == CoarseScan(curve, tx, ty, 0, [index |-> -1, distance |-> Zero])
      closestIndex == IF coarse.index < 0 THEN 0 ELSE coarse.index
      startIdx == Max(0, closestIndex - searchRadius)
      endIdx == Min(Len(curve) - 1, closestIndex + searchRadius)
  IN  Refine(curve, tx, ty, startIdx, endIdx,
             [point |-> At(curve, closestIndex), distance |-> coarse.distance]).point


-----------------------------------------------------------------------------
(* SuperellipseMath.generateDesaturatedCurve *)

\* sample values of a curve that runs from (1, 0) over the knee (kx, ky) to
\* (0, 1): the knee (0, 0) is the curve of exponent N_MIN hugging the axes,
\* the knee (1, 1) the curve of exponent N_MAX hugging the far corner, the
\* knee (1/2, 1/2) the diamond of exponent 1
KneeSamples(kx, ky) ==
  [k \in 1..(Resolution + 1) |->
     IF k = 1 THEN <<One, Zero>>
     ELSE IF k = Resolution + 1 THEN <<Zero, One>>
     ELSE <<kx, ky>>]

minCompressionFactor == Rat(1, 200)

\* raw holds the sample values of the main curve (exponent nMain).  At
\* saturationPercent = 100 the secondary exponent is nMain and the sample
\* values are those of the main curve; at 0 it is 1, the diamond.
GenerateDesaturatedCurve(raw, saturationPercent) ==
  LET a == RMax(minCompressionFactor, RDiv(RInt(saturationPercent), RInt(100)))
      secondary == IF saturationPercent = 100 THEN raw
                   ELSE KneeSamples(Rat(1, 2), Rat(1, 2))
      compressed == [k \in 1..Len(secondary) |->
                       <<RMul(a, secondary[k][1]), secondary[k][2]>>]
  IN  GenerateCurvePoints(compressed)

-----------------------------------------------------------------------------
(* SuperellipseMath.generateDesaturatedCurve on an exponent

   The exponent of the secondary curve is computed in binary floating point:
   each operation rounds its exact result to Precision significant bits, to
   nearest, ties to even.  A sample value Math.pow(Math.cos(t), 2/n) is
   computed by Pow and kept to a multiple of KneeUnit/PowUnit. *)

\* the number of significant bits of a floating-point number
Precision == 5

\* 2^e as a rational
PowerOfTwo(e) == IF e >= 0 THEN RInt(TwoTo(e)) ELSE Rat(1, TwoTo(-e))

\* the largest e >= from with 2^e <= p, for p >= 2^from
RECURSIVE BinaryExponent(_, _)
BinaryExponent(p, from) ==
  IF RLt(p, PowerOfTwo(from + 1)) THEN from ELSE BinaryExponent(p, from + 1)

\* the integer nearest to p >= 0, the even one of two equally near
RoundHalfEven(p) ==
  LET floor == p.n \div p.d
      twice == 2 * (p.n % p.d)
  IN  IF twice < p.d THEN floor
      ELSE IF twice > p.d THEN floor + 1
      ELSE IF floor % 2 = 0 THEN floor ELSE floor + 1

\* the floating-point number nearest to p
RoundToPrecision(p) ==
  IF IsNaN(p) \/ p.n = 0 THEN p
  ELSE LET magnitude == [n |-> Abs(p.n), d |-> p.d]
           ulp == PowerOfTwo(BinaryExponent(magnitude, -16) - Precision + 1)
           rounded == RMul(RInt(RoundHalfEven(RDiv(magnitude, ulp))), ulp)
       IN  IF p.n < 0 THEN RNeg(rounded) ELSE rounded

\* the floating-point numbers from N_MIN to N_MAX: the exponents findExponent
\* can return
Exponents ==
  {n \in {RMul(RInt(m), PowerOfTwo(e - Precision + 1)) :
            m \in TwoTo(Precision - 1)..(TwoTo(Precision) - 1), e \in (-4)..4} :
     /\ RLe(RoundToPrecision(Rat(SUPERELLIPSE_N_MIN, ExpScale)), n)
     /\ RLe(n, RoundToPrecision(Rat(SUPERELLIPSE_N_MAX, ExpScale)))}

\* 2 / n in units of 1/ExpScale
TwoOver(n) == (2 * ExpScale * n.d) \div n.n

\* a sample value is a multiple of KneeUnit/PowUnit
KneeUnit == 512

\* Math.pow(Math.cos(t), 2 / n) and Math.pow(Math.sin(t), 2 / n) at
\* t = PI/4, where cos(t) = sin(t) = 2^-(1/2)
KneeOf(n) == Rat(Pow(LogScale \div 2, TwoOver(n)) \div KneeUnit, PowUnit \div KneeUnit)

\* the sample values of the curve of exponent n
SamplesOfExponent(n) == KneeSamples(KneeOf(n), KneeOf(n))

\* generateCurvePoints(n)
GenerateCurvePointsOfExponent(n) == GenerateCurvePoints(SamplesOfExponent(n))

\* no compression of the x values
NoCompression(saturationPercent) == One

\* a = Math.max(minCompressionFactor, saturationPercent / 100)
CompressionFactor(saturationPercent) ==
  RMax(minCompressionFactor, RDiv(RInt(saturationPercent), RInt(100)))

\* nSecondary = 1 + (nMain - 1) * (saturationPercent / 100)
SecondaryExponent(nMain, saturationPercent) ==
  RoundToPrecision(RAdd(One,
    RoundToPrecision(RMul(RoundToPrecision(RSub(nMain, One)),
                          RoundToPrecision(RDiv(RInt(saturationPercent), RInt(100)))))))

\* px = a * Math.pow(Math.cos(t), 2 / nSecondary), py = Math.pow(Math.sin(t), 2 / nSecondary)
CompressedSamples(a, secondary) ==
  [k \in 1..Len(secondary) |-> <<RMul(a, secondary[k][1]), secondary[k][2]>>]

\* generateDesaturatedCurve(nMain, saturationPercent)
GenerateDesaturatedCurveOfExponent(nMain, saturationPercent) ==
  GenerateCurvePoints(
    CompressedSamples(CompressionFactor(saturationPercent),
                      SamplesOfExponent(SecondaryExponent(nMain, saturationPercent))))

-----------------------------------------------------------------------------
(* ColorGenerator *)

\* Math.pow(p, 1.5) for 0 <= p <= 1, rounded down to a multiple of 1/PowScale
PowThreeHalves(p) ==
  LET v == MulDivFloor(PowScale * PowScale, p.n * p.n * p.n, p.d * p.d * p.d)
  IN  Rat(FloorRoot(v, 2, 0, PowScale), PowScale)

\* Math.pow(p, 1 / 1.5) for 0 <= p <= 1, rounded down to a multiple of 1/PowScale
PowTwoThirds(p) ==
  LET v == MulDivFloor(PowScale * PowScale * PowScale, p.n * p.n, p.d * p.d)
  IN  Rat(FloorRoot(v, 3, 0, PowScale), PowScale)

\* the position computed on the far side of the anchor whatever isBefore is
CalculateArcLengthAfterOnly(index, total, selectedArc, contrast, useContrast, isBefore) ==
  RAdd(selectedArc, RMul(RDiv(RSub(One, selectedArc), RInt(total + 1)), RInt(index + 1)))

\* the positions without contrast counted from index instead of index + 1
CalculateArcLengthFromIndex(index, total, selectedArc, contrast, useContrast, isBefore) ==
  IF isBefore
  THEN RMul(RDiv(selectedArc, RInt(total + 1)), RInt(index))
  ELSE RAdd(selectedArc, RMul(RDiv(RSub(One, selectedArc), RInt(total + 1)), RInt(index)))

\* the contrast branch at contrast 1.0 with the distance index + 1 on both
\* sides, the branch without contrast as it is
CalculateArcLengthSameDistance(index, total, selectedArc, contrast, useContrast, isBefore) ==
  IF ~useContrast
  THEN IF isBefore
       THEN RMul(RDiv(selectedArc, RInt(total + 1)), RInt(index + 1))
       ELSE RAdd(selectedArc,
                 RMul(RDiv(RSub(One, selectedArc), RInt(total + 1)), RInt(index + 1)))
  ELSE IF isBefore
       THEN RSub(selectedArc, RMul(selectedArc, Rat(index + 1, total + 1)))
       ELSE RAdd(selectedArc, RMul(RSub(One, selectedArc), Rat(index + 1, total + 1)))

\* the warp with the two exponents exchanged: 1.5 above contrast 1.0 and
\* 1 / 1.5 below it
CalculateArcLengthExponentsSwapped(index, total, selectedArc, contrast, useContrast, isBefore) ==
  IF ~useContrast
  THEN IF isBefore
       THEN RMul(RDiv(selectedArc, RInt(total + 1)), RInt(index + 1))
       ELSE RAdd(selectedArc,
                 RMul(RDiv(RSub(One, selectedArc), RInt(total + 1)), RInt(index + 1)))
  ELSE LET normalizedDistance ==
             Rat(IF isBefore THEN total - index ELSE index + 1, total + 1)
           poweredDistance ==
             IF RLt(One, contrast)
             THEN LET tt == RMin(RDiv(RSub(contrast, One), RInt(4)), One)
                  IN  RAdd(RMul(normalizedDistance, RSub(One, tt)),
                           RMul(PowThreeHalves(normalizedDistance), tt))
             ELSE IF RLt(contrast, One)
             THEN LET tt == RMin(RDiv(RSub(One, contrast), Rat(9, 10)), One)
                  IN  RAdd(RMul(normalizedDistance, RSub(One, tt)),
                           RMul(PowTwoThirds(normalizedDistance), tt))
             ELSE normalizedDistance
       IN  IF isBefore
           THEN RSub(selectedArc, RMul(selectedArc, poweredDistance))
           ELSE RAdd(selectedArc, RMul(RSub(One, selectedArc), poweredDistance))

\* _calculateArcLength; contrast is a rational, index is 0-based
CalculateArcLength(index, total, selectedArc, contrast, useContrast, isBefore) ==
  IF ~useContrast
  THEN IF isBefore
       THEN RMul(RDiv(selectedArc, RInt(total + 1)), RInt(index + 1))
       ELSE RAdd(selectedArc,
                 RMul(RDiv(RSub(One, selectedArc), RInt(total + 1)), RInt(index + 1)))
  ELSE LET normalizedDistance ==
             Rat(IF isBefore THEN total - index ELSE index + 1, total + 1)
           maxContrastRange == RInt(4)
           minContrastRange == Rat(9, 10)
           poweredDistance ==
             IF RLt(One, contrast)
             THEN LET tt == RMin(RDiv(RSub(contrast, One), maxContrastRange), One)
                      curved == PowTwoThirds(normalizedDistance)
                  IN  RAdd(RMul(normalizedDistance, RSub(One, tt)), RMul(curved, tt))
             ELSE IF RLt(contrast, One)
             THEN LET tt == RMin(RDiv(RSub(One, contrast), minContrastRange), One)
                      curved == PowThreeHalves(normalizedDistance)
                  IN  RAdd(RMul(normalizedDistance, RSub(One, tt)), RMul(curved, tt))
             ELSE normalizedDistance
       IN  IF isBefore
           THEN RSub(selectedArc, RMul(selectedArc, poweredDistance))
           ELSE RAdd(selectedArc, RMul(RSub(One, selectedArc), poweredDistance))

\* the smart split (lines 59-68) without its edge correction
SmartSplitUncorrected(pointsToDistribute, selectedArcLength) ==
  LET pb == RRound(RMul(selectedArcLength, RInt(pointsToDistribute)))
  IN  <<pb, pointsToDistribute - pb>>

\* the split in proportion to the position of the anchor (lines 59-68), with
\* the correction that keeps a side from staying empty
SmartSplit(pointsToDistribute, selectedArcLength) ==
  LET pb == RRound(RMul(selectedArcLength, RInt(pointsToDistribute)))
      pa == pointsToDistribute - pb
  IN  IF pb = 0 /\ pa > 1 THEN <<1, pa - 1>>
      ELSE IF pa = 0 /\ pb > 1 THEN <<pb - 1, 1>>
      ELSE <<pb, pa>>

\* the even split (lines 70-87) with the comparison of the two spans reversed
EvenSplitReversed(count, pointsToDistribute, selectedArcLength) ==
  IF count % 2 = 0
  THEN IF RLe(selectedArcLength, RSub(One, selectedArcLength))
       THEN <<(pointsToDistribute + 1) \div 2, pointsToDistribute \div 2>>
       ELSE <<pointsToDistribute \div 2, (pointsToDistribute + 1) \div 2>>
  ELSE <<pointsToDistribute \div 2, pointsToDistribute \div 2>>

\* the even split (lines 70-87)
EvenSplit(count, pointsToDistribute, selectedArcLength) ==
  IF count % 2 = 0
  THEN LET smallerSegment == pointsToDistribute \div 2
           largerSegment == (pointsToDistribute + 1) \div 2
           beforeLength == selectedArcLength
           afterLength == RSub(One, selectedArcLength)
       IN  IF RLe(afterLength, beforeLength)
           THEN <<largerSegment, smallerSegment>>
           ELSE <<smallerSegment, largerSegment>>
  ELSE <<pointsToDistribute \div 2, pointsToDistribute \div 2>>

\* the split with all count swatches distributed, none kept for the anchor
SplitPointsOfCount(count, selectedArcLength, contrast, smartSpacing) ==
  IF smartSpacing /\ contrast = One
  THEN SmartSplit(count, selectedArcLength)
  ELSE EvenSplit(count + 1, count, selectedArcLength)

\* the split of the count - 1 other swatches between the two sides of the
\* anchor (lines 52-88): <<pointsBefore, pointsAfter>>
SplitPoints(count, selectedArcLength, contrast, smartSpacing) ==
  LET pointsToDistribute == count - 1
      useContrastMode == contrast # One
  IN  IF smartSpacing /\ ~useContrastMode
      THEN SmartSplit(pointsToDistribute, selectedArcLength)
      ELSE EvenSplit(count, pointsToDistribute, selectedArcLength)

Percent(p) == RMul(p, RInt(100))

\* the swatch pushed for arcLength on one side of the anchor (lines 113-133,
\* 169-189), mainPoint and desaturatedPoint being the points looked up on
\* the two curves; hex and mainHex, functions of (hue, s, v), are left out
SwatchAt(arcLength, mainPoint, desaturatedPoint) ==
  [s |-> Percent(desaturatedPoint.x), v |-> Percent(desaturatedPoint.y),
   arcLength |-> arcLength,
   mainS |-> Percent(mainPoint.x), mainV |-> Percent(mainPoint.y),
   isSelected |-> FALSE, isBlack |-> FALSE, isWhite |-> FALSE]

\* one iteration of the loops over the two sides (lines 109-133, 165-189)
SideSwatch(arcLength, curve, desaturated) ==
  SwatchAt(arcLength, FindPointAtArcLength(arcLength, curve),
           FindPointAtArcLength(arcLength, desaturated))

\* the swatch pushed for the anchor (lines 136-153)
SelectedSwatch(p, selectedArcLength, selectedDesaturatedPoint) ==
  [s |-> Percent(selectedDesaturatedPoint.x),
   v |-> Percent(selectedDesaturatedPoint.y),
   arcLength |-> selectedArcLength,
   mainS |-> p.saturation, mainV |-> p.value,
   isSelected |-> TRUE, isBlack |-> FALSE, isWhite |-> FALSE]

blackSwatch ==
  [s |-> Zero, v |-> Zero, arcLength |-> Zero, mainS |-> Zero, mainV |-> Zero,
   isSelected |-> FALSE, isBlack |-> TRUE, isWhite |-> FALSE]

\* the white swatch placed at arc length 0
whiteSwatchAtZero ==
  [s |-> Zero, v |-> RInt(100), arcLength |-> Zero, mainS |-> Zero, mainV |-> RInt(100),
   isSelected |-> FALSE, isBlack |-> FALSE, isWhite |-> TRUE]

whiteSwatch ==
  [s |-> Zero, v |-> RInt(100), arcLength |-> One, mainS |-> Zero, mainV |-> RInt(100),
   isSelected |-> FALSE, isBlack |-> FALSE, isWhite |-> TRUE]

\* black and white added around the swatches (lines 192-213)
WithBlackWhite(includeBlackWhite, main) ==
  IF includeBlackWhite THEN <<blackSwatch>> \o main \o <<whiteSwatch>> ELSE main

\* a swatch that is neither the black nor the white one
IsMainColor(color) == ~color.isBlack /\ ~color.isWhite

\* colorCounter taken as the position of the color in the list
ColorCounterOfPosition(cs, k) == k - 1

\* colorCounter when the color at position k is mapped: the main colors
\* before it
ColorCounter(cs, k) == Len(SelectSeq(SubSeq(cs, 1, k - 1), IsMainColor))

nameMultiplier == 10

\* the display name `${baseName} ${index}` as its two parts, "Black" and
\* "White" as their one part
StepName(baseName, index) == <<baseName, index>>

\* generateColorNames (lines 291-312): the colors with displayName added
GenerateColorNames(cs, baseName) ==
  [k \in 1..Len(cs) |->
     [color |-> cs[k],
      displayName |->
        IF cs[k].isBlack THEN <<"Black">>
        ELSE IF cs[k].isWhite THEN <<"White">>
        ELSE StepName(baseName,
                      (Len(SelectSeq(cs, IsMainColor)) - ColorCounter(cs, k))
                        * nameMultiplier)]]

\* the base names of the palettes
BaseNames == {"Color", "Blue"}

\* the swatches of generatePalette (lines 99-213) once the curves, the arc
\* length of the anchor and the split are known
Swatches(p, curve, desaturated, selectedArcLength, pointsBefore, pointsAfter) ==
  WithBlackWhite(p.includeBlackWhite,
    [k \in 1..pointsBefore |->
       SideSwatch(CalculateArcLength(k - 1, pointsBefore, selectedArcLength,
                                     p.contrast, p.contrast # One, TRUE),
                  curve, desaturated)]
    \o <<SelectedSwatch(p, selectedArcLength,
                        FindPointAtArcLength(selectedArcLength, desaturated))>>
    \o [k \in 1..pointsAfter |->
          SideSwatch(CalculateArcLength(k - 1, pointsAfter, selectedArcLength,
                                        p.contrast, p.contrast # One, FALSE),
                     curve, desaturated)])

\* lines 51-213 of generatePalette, the split being <<pointsBefore, pointsAfter>>
SwatchesOfSplit(p, curve, desaturated, selectedArcLength, split) ==
  Swatches(p, curve, desaturated, selectedArcLength, split[1], split[2])

\* lines 49-213 of generatePalette, selectedPoint being the point of the
\* curve closest to the anchor
PaletteAround(p, curve, desaturated, selectedPoint) ==
  [colors |-> SwatchesOfSplit(p, curve, desaturated, selectedPoint.normalizedArcLength,
                              SplitPoints(p.colorCount, selectedPoint.normalizedArcLength,
                                          p.contrast, p.smartSpacing)),
   curvePoints |-> curve,
   desaturatedCurvePoints |-> desaturated]

\* lines 44-215 of generatePalette on the two curves
PaletteOnCurves(p, curve, desaturated) ==
  PaletteAround(p, curve, desaturated,
                FindClosestPoint(RDiv(p.saturation, RInt(100)),
                                 RDiv(p.value, RInt(100)), curve))

\* generatePalette.  p is the request; p.raw holds the sample values
\* Math.pow gives for the exponent findExponent returns for the anchor.
GeneratePalette(p) ==
  PaletteOnCurves(p, GenerateCurvePoints(p.raw),
                  GenerateDesaturatedCurve(p.raw, p.saturationControl))


-----------------------------------------------------------------------------
(* AppState and UIController *)

\* the sample values of the curve fitted to an anchor: findExponent chooses
\* the exponent whose curve passes through the anchor
CurveSamplesFor(saturation, value) ==
  KneeSamples(RDiv(saturation, RInt(100)), RDiv(value, RInt(100)))

\* the argument _regenerateColors builds from the state (lines 1219-1228)
Request(st) ==
  [saturation |-> st.saturation, value |-> st.value, colorCount |-> st.colorCount,
   contrast |-> st.contrast, smartSpacing |-> st.smartSpacing,
   includeBlackWhite |-> st.includeBlackWhite,
   saturationControl |-> st.saturationControl]

\* generatePalette on such an argument
PaletteOf(r) ==
  GeneratePalette([saturation |-> r.saturation, value |-> r.value,
                   colorCount |-> r.colorCount, contrast |-> r.contrast,
                   smartSpacing |-> r.smartSpacing,
                   includeBlackWhite |-> r.includeBlackWhite,
                   saturationControl |-> r.saturationControl,
                   raw |-> CurveSamplesFor(r.saturation, r.value)])

\* _regenerateColors: generatePalette on the current state, then
\* updateGeneratedColors, whose "colors" notification changes no state.
\* generatePalette is a function of its argument alone: the stored
\* generatedColors and curvePoints are represented by the request they were
\* generated from, PaletteOf(st.generatedFrom) being their value.
RegenerateColors(st) == [st EXCEPT !.generatedFrom = Request(st)]

\* AppState after construction (lines 10-35 of AppState) and the initial
\* render (_performInitialRender)
initialState ==
  LET constructed ==
        [saturation |-> RInt(81), value |-> RInt(78), saturationControl |-> 100,
         colorCount |-> 10, contrast |-> One,
         smartSpacing |-> FALSE, includeBlackWhite |-> FALSE]
  IN  [saturation |-> constructed.saturation, value |-> constructed.value,
       saturationControl |-> constructed.saturationControl,
       colorCount |-> constructed.colorCount, contrast |-> constructed.contrast,
       smartSpacing |-> constructed.smartSpacing,
       includeBlackWhite |-> constructed.includeBlackWhite,
       generatedFrom |-> Request(constructed)]

CONTRAST_MIN == Rat(1, 10)
CONTRAST_MAX == RInt(5)
CONTRAST_STEP == Rat(1, 10)
COLOR_COUNT_MIN == 1
COLOR_COUNT_MAX == 50
DRAG_SENSITIVITY == Rat(3, 10)

\* parseFloat(text) || fallback: NaN and 0 are falsy
OrDefault(value, fallback) == IF IsNaN(value) \/ value.n = 0 THEN fallback ELSE value

\* Math.max(lo, Math.min(hi, value))
Clamp(lo, hi, value) == RMax(lo, RMin(hi, value))

InitUI ==
  /\ state = initialState
  /\ dom = [smartSpacingActive |-> FALSE, blackwhiteActive |-> FALSE,
            contrastInputValue |-> One, contrastInputDisabled |-> FALSE,
            dragActive |-> FALSE, dragStartValue |-> One]
  /\ requests = <<Request(initialState)>>
  /\ callStack = <<>>
  /\ cascade = [raised |-> <<>>, calls |-> 0]
  /\ handled = <<>>

\* the click on the Smart Spacing toggle without the reset of the contrast
ClickSmartSpacingKeepingContrast ==
  LET isActive == ~dom.smartSpacingActive
      s1 == [state EXCEPT !.smartSpacing = isActive]
      s2 == RegenerateColors(s1)
  IN  /\ state' = RegenerateColors(s2)
      /\ dom' = [dom EXCEPT !.smartSpacingActive = isActive,
                            !.contrastInputDisabled = isActive]
      /\ requests' = <<Request(s1), Request(s2)>>
      /\ UNCHANGED <<curveVars, paletteVars, figmaVars, notifyVars>>

\* the click on the Smart Spacing toggle with the regeneration of the
\* "feature" notification alone, without the one that ends the handler
ClickSmartSpacingRegeneratedOnce ==
  LET isActive == ~dom.smartSpacingActive
      s1 == [state EXCEPT !.smartSpacing = isActive]
      s2 == RegenerateColors(s1)
  IN  /\ state' = IF isActive THEN [s2 EXCEPT !.contrast = One] ELSE s2
      /\ dom' = [dom EXCEPT !.smartSpacingActive = isActive,
                            !.contrastInputValue = IF isActive THEN One ELSE @,
                            !.contrastInputDisabled = isActive]
      /\ requests' = <<Request(s1)>>
      /\ UNCHANGED <<curveVars, paletteVars, figmaVars, notifyVars>>

\* a click on the Smart Spacing toggle: _handleFeatureToggle("smartSpacing")
\* (lines 1068-1071, 1087-1104); setFeature notifies "feature", whose
\* observer regenerates the colors before the handler goes on
ClickSmartSpacing ==
  LET isActive == ~dom.smartSpacingActive
      s1 == [state EXCEPT !.smartSpacing = isActive]
      s2 == RegenerateColors(s1)
      s3 == IF isActive THEN [s2 EXCEPT !.contrast = One] ELSE s2
      s4 == RegenerateColors(s3)
  IN  /\ state' = s4
      /\ dom' = [dom EXCEPT !.smartSpacingActive = isActive,
                            !.contrastInputValue = IF isActive THEN One ELSE @,
                            !.contrastInputDisabled = isActive]
      /\ requests' = <<Request(s1), Request(s3)>>
      /\ UNCHANGED <<curveVars, paletteVars, figmaVars, notifyVars>>

\* a click on the Black & White toggle: _handleFeatureToggle("blackwhite")
ClickBlackWhite ==
  LET isActive == ~dom.blackwhiteActive
      s1 == [state EXCEPT !.includeBlackWhite = isActive]
      s2 == RegenerateColors(s1)
  IN  /\ state' = RegenerateColors(s2)
      /\ dom' = [dom EXCEPT !.blackwhiteActive = isActive]
      /\ requests' = <<Request(s1), Request(s2)>>
      /\ UNCHANGED <<curveVars, paletteVars, figmaVars, notifyVars>>

\* the texts typed into the contrast field, as parseFloat reads them:
\* not a number, 0, 0.05, 1, 3 and 7
ContrastTexts == {NaN, Zero, Rat(1, 20), One, RInt(3), RInt(7)}

\* the "input" listener of the contrast field (lines 1024-1037); a disabled
\* field takes no input
ContrastInput ==
  /\ UNCHANGED <<curveVars, paletteVars, figmaVars, notifyVars>>
  /\ ~dom.contrastInputDisabled
  /\ \E text \in ContrastTexts :
       LET value == Clamp(CONTRAST_MIN, CONTRAST_MAX, OrDefault(text, One))
           s1 == [state EXCEPT !.contrast = value]
           s2 == RegenerateColors(s1)
           off == value # One /\ s2.smartSpacing
           s3 == IF off THEN RegenerateColors([s2 EXCEPT !.smartSpacing = FALSE]) ELSE s2
       IN  /\ state' = RegenerateColors(s3)
           /\ dom' = [dom EXCEPT !.contrastInputValue = text,
                                 !.smartSpacingActive = IF off THEN FALSE ELSE @]
           /\ requests' = <<Request(s1)>> \o
                          (IF off THEN <<Request([s2 EXCEPT !.smartSpacing = FALSE])>>
                           ELSE <<>>) \o <<Request(s3)>>

\* mousedown on the contrast icon (lines 1551-1568): refused while smart
\* spacing is on
ContrastDragStart ==
  /\ UNCHANGED <<curveVars, paletteVars, figmaVars, notifyVars>>
  /\ ~dom.dragActive
  /\ ~state.smartSpacing
  /\ dom' = [dom EXCEPT !.dragActive = TRUE, !.dragStartValue = dom.contrastInputValue]
  /\ UNCHANGED <<state, requests>>

\* horizontal mouse movements of a drag, in pixels from its start
DragDeltas == {-100, 100}

\* mousemove during a drag of the contrast icon (lines 1570-1587) and the
\* onUpdate of the contrast control (lines 1507-1513)
ContrastDragMove ==
  /\ UNCHANGED <<curveVars, paletteVars, figmaVars, notifyVars>>
  /\ dom.dragActive
  /\ \E deltaX \in DragDeltas :
       LET sensitivity == RMul(CONTRAST_STEP, DRAG_SENSITIVITY)
           newValue == RAdd(dom.dragStartValue, RMul(RInt(deltaX), sensitivity))
           clampedValue == Clamp(CONTRAST_MIN, CONTRAST_MAX, newValue)
           finalValue == IF IsNaN(clampedValue) THEN NaN
                         ELSE RMul(RInt(RRound(RDiv(clampedValue, CONTRAST_STEP))),
                                   CONTRAST_STEP)
           s1 == [state EXCEPT !.contrast = finalValue]
           off == finalValue # One /\ s1.smartSpacing
           s2 == IF off THEN RegenerateColors([s1 EXCEPT !.smartSpacing = FALSE]) ELSE s1
       IN  /\ state' = RegenerateColors(s2)
           /\ dom' = [dom EXCEPT !.contrastInputValue = finalValue,
                                 !.smartSpacingActive = IF off THEN FALSE ELSE @]
           /\ requests' = (IF off THEN <<Request([s1 EXCEPT !.smartSpacing = FALSE])>>
                           ELSE <<>>) \o <<Request(s2)>>

\* mouseup ends the drag (lines 1589-1596)
ContrastDragEnd ==
  /\ UNCHANGED <<curveVars, paletteVars, figmaVars, notifyVars>>
  /\ dom.dragActive
  /\ dom' = [dom EXCEPT !.dragActive = FALSE]
  /\ UNCHANGED <<state, requests>>

\* the texts typed into the color count field, as parseInt reads them
CountTexts == {NaN, Zero, RInt(99)}

\* the "input" listener of the color count field (lines 1015-1022)
ColorCountInput ==
  /\ UNCHANGED <<curveVars, paletteVars, figmaVars, notifyVars>>
  /\ \E text \in CountTexts :
       LET parsed == IF IsNaN(text) \/ text.n = 0 THEN 10 ELSE RFloor(text)
           value == Max(COLOR_COUNT_MIN, Min(COLOR_COUNT_MAX, parsed))
           s1 == [state EXCEPT !.colorCount = value]
           s2 == RegenerateColors(s1)
       IN  /\ state' = RegenerateColors(s2)
           /\ requests' = <<Request(s1), Request(s2)>>
  /\ UNCHANGED dom

\* the anchor picked on the color palette: white
PickedColors == {<<Zero, RInt(100)>>}

\* a color change (palette drag, hue drag or hex input): AppState.updateColor
\* (lines 68-73) and the observer's handling of "color"
ColorChange ==
  /\ UNCHANGED <<curveVars, paletteVars, figmaVars, notifyVars>>
  /\ \E picked \in PickedColors :
       LET s1 == [state EXCEPT !.saturation = picked[1], !.value = picked[2]]
       IN  /\ state' = RegenerateColors(s1)
           /\ requests' = <<Request(s1)>>
  /\ UNCHANGED dom

\* the position of the saturation slider, in percent
SliderPositions == {50}

\* a drag on the saturation slider: _updateSaturationControl assigns the
\* state field and notifies "saturation-control"
SaturationControlChange ==
  /\ UNCHANGED <<curveVars, paletteVars, figmaVars, notifyVars>>
  /\ \E saturationControl \in SliderPositions :
       LET s1 == [state EXCEPT !.saturationControl = saturationControl]
       IN  /\ state' = RegenerateColors(s1)
           /\ requests' = <<Request(s1)>>
  /\ UNCHANGED dom

\* the presets Warm Gray, Atlantic Blue and Himmel Blue of PRESET_DATA, the
\* color as hexToHsv converts it
Presets ==
  { [saturation |-> RInt(84), value |-> RInt(75), contrast |-> One,
     saturationControl |-> 10],
    [saturation |-> RInt(93), value |-> RInt(91), contrast |-> Rat(8, 10),
     saturationControl |-> 100],
    [saturation |-> RInt(88), value |-> RInt(80), contrast |-> Rat(12, 10),
     saturationControl |-> 100] }

\* a click on a preset: AppState.applyPreset (lines 139-154) and the
\* observer's handling of its notifications "color", "feature" and "preset"
PresetClick ==
  /\ UNCHANGED <<curveVars, paletteVars, figmaVars, notifyVars>>
  /\ \E preset \in Presets :
       LET s1 == [state EXCEPT !.saturation = preset.saturation, !.value = preset.value]
           s2 == RegenerateColors(s1)
           s3 == [s2 EXCEPT !.contrast = preset.contrast,
                            !.saturationControl = preset.saturationControl]
           off == s3.smartSpacing
           s4 == IF off THEN [s3 EXCEPT !.smartSpacing = FALSE] ELSE s3
           s5 == IF off THEN RegenerateColors(s4) ELSE s4
       IN  /\ state' = RegenerateColors(s5)
           /\ dom' = [dom EXCEPT !.contrastInputValue = preset.contrast,
                                 !.contrastInputDisabled = FALSE]
           /\ requests' = <<Request(s1)>> \o (IF off THEN <<Request(s4)>> ELSE <<>>)
                          \o <<Request(s5)>>

-----------------------------------------------------------------------------
(* The curve engine as a state machine: generateCurvePoints runs its loop,
   returns the curve, and one lookup is made on the returned curve *)

NoLookup == [op |-> "none"]
NotCalled == [called |-> FALSE]
NotGenerated == <<>>

InitCurve ==
  /\ i = 0
  /\ points = <<>>
  /\ totalArcLength = Zero
  /\ curvePoints = <<>>
  /\ raised = {}
  /\ lookup = NoLookup
  /\ search = NoSearch

\* one iteration of the loop of generateCurvePoints (lines 668-703)
SampleStep ==
  /\ curvePoints = <<>>
  /\ i <= Resolution
  /\ i = 0 \/ i <= Len(points)
  /\ \E r \in RawSamples(i, IF i = 0 THEN <<One, Zero>>
                            ELSE <<At(points, i - 1).x, At(points, i - 1).y>>) :
       LET cur == AddSample([points |-> points, total |-> totalArcLength], i, r[1], r[2])
       IN  /\ points' = cur.points
           /\ totalArcLength' = cur.total
  /\ i' = i + 1
  /\ UNCHANGED <<curvePoints, raised, lookup, search, paletteVars, uiVars, figmaVars>>

\* at most MaxRaised samples raise an exception of their own
MaxRaised == 1

\* an iteration in which computing the coordinates raises an exception
\* (lines 672-673): the catch block goes on to the next index (lines 701-703)
SampleRaises ==
  /\ curvePoints = <<>>
  /\ i <= Resolution
  /\ Cardinality(raised) < MaxRaised
  /\ raised' = raised \cup {i}
  /\ i' = i + 1
  /\ UNCHANGED <<points, totalArcLength, curvePoints, lookup, search, paletteVars, uiVars, figmaVars>>

\* an iteration after a dropped sample: points[i - 1] is undefined, reading
\* prevPoint.x raises a TypeError (lines 688-689) and the catch block goes on
\* to the next index
SampleAfterDrop ==
  /\ curvePoints = <<>>
  /\ i <= Resolution
  /\ i > 0 /\ Len(points) < i
  /\ i' = i + 1
  /\ UNCHANGED <<points, totalArcLength, curvePoints, raised, lookup, search, paletteVars, uiVars, figmaVars>>

\* the normalisation and the return of generateCurvePoints (lines 705-715)
ReturnCurve ==
  /\ curvePoints = <<>>
  /\ i > Resolution
  /\ curvePoints' = NormalizeCurve(points, totalArcLength)
  /\ UNCHANGED <<i, points, totalArcLength, raised, lookup, search, paletteVars, uiVars, figmaVars>>

Queries == {Rat(k, QueryDen) : k \in (-1)..(QueryDen + 1)}

\* a call findPointAtArcLength(q, curvePoints)
LookupArcLength ==
  /\ curvePoints # <<>>
  /\ lookup = NoLookup
  /\ \E q \in Queries :
       lookup' = [op |-> "findPointAtArcLength", q |-> q,
                  result |-> FindPointAtArcLength(q, curvePoints)]
  /\ UNCHANGED <<i, points, totalArcLength, curvePoints, raised, search, paletteVars, uiVars, figmaVars>>

\* a call findClosestPoint(targetX, targetY, curvePoints)
LookupClosest ==
  /\ curvePoints # <<>>
  /\ lookup = NoLookup
  /\ \E target \in GridPoints :
       lookup' = [op |-> "findClosestPoint", target |-> target,
                  result |-> FindClosestPoint(target[1], target[2], curvePoints)]
  /\ UNCHANGED <<i, points, totalArcLength, curvePoints, raised, search, paletteVars, uiVars, figmaVars>>

-----------------------------------------------------------------------------
(* generatePalette as a function of its request *)

\* contrast values of the requests: 0.1, 0.5, 1.0, 3.0, 5.0
ContrastValues == {Rat(1, 10), Rat(1, 2), One, RInt(3), RInt(5)}

Requests ==
  [saturation : {Percent(g[1]) : g \in GridPoints},
   value : {Percent(g[2]) : g \in GridPoints},
   colorCount : 1..MaxCount,
   contrast : ContrastValues,
   smartSpacing : BOOLEAN,
   includeBlackWhite : BOOLEAN,
   saturationControl : {0, 100},
   raw : {KneeSamples(Zero, Zero), KneeSamples(One, One),
          KneeSamples(Rat(1, 2), Rat(1, 2))}]

InitPalette ==
  /\ params \in Requests
  /\ colors = NotGenerated
  /\ colorName \in BaseNames
  /\ namedColors = NotGenerated
  /\ placement = NotCalled
  /\ desaturatedCurve = NotCalled

GeneratePaletteCall ==
  /\ colors = NotGenerated
  /\ colors' = GeneratePalette(params).colors
  /\ UNCHANGED <<params, colorName, namedColors, placement, desaturatedCurve, curveVars, uiVars, figmaVars>>

\* the arc lengths of the anchor in the calls of _calculateArcLength
AnchorArcLengths == {Rat(k, QueryDen) : k \in 0..QueryDen}

\* a call _calculateArcLength(index, total, selectedArc, contrast,
\* useContrast, isBefore) for a point of a side of total points
CalculateArcLengthCall ==
  /\ placement = NotCalled
  /\ \E total \in 1..MaxCount, selectedArc \in AnchorArcLengths,
        contrast \in ContrastValues, useContrast \in BOOLEAN, isBefore \in BOOLEAN :
     \E index \in 0..(total - 1) :
       placement' = [called |-> TRUE, index |-> index, total |-> total,
                     selectedArc |-> selectedArc, contrast |-> contrast,
                     useContrast |-> useContrast, isBefore |-> isBefore,
                     result |-> CalculateArcLength(index, total, selectedArc, contrast,
                                                   useContrast, isBefore)]
  /\ UNCHANGED <<params, colors, colorName, namedColors, desaturatedCurve, curveVars, uiVars, figmaVars>>

\* a call generateColorNames(generatedColors, baseName)
GenerateColorNamesCall ==
  /\ colors # NotGenerated
  /\ namedColors = NotGenerated
  /\ namedColors' = GenerateColorNames(colors, colorName)
  /\ UNCHANGED <<params, colors, colorName, placement, desaturatedCurve, curveVars, uiVars, figmaVars>>

-----------------------------------------------------------------------------
(* VariableManager: the variables of the Figma document

   A variable name is the sequence of its parts between the '/' characters,
   a palette name likewise; a variable is a record of its identity, its
   name and its value in the default mode. *)

\* at most MaxImports palettes are imported
MaxImports == 4

COLLECTION_NAMES_NEUTRAL == "Neutral"

\* `${paletteName}/${variableIndex}`
VariableName(paletteName, variableIndex) == Append(paletteName, variableIndex)

\* v.name.startsWith(`${paletteName}/`)
StartsWithPalette(name, paletteName) ==
  /\ Len(name) > Len(paletteName)
  /\ SubSeq(name, 1, Len(paletteName)) = paletteName

\* parts[parts.length - 1] of variable.name.split('/')
LastPart(name) == name[Len(name)]

\* color.name.match(/(\d+)$/)[1] of a name `${baseName} ${index}`
VariableIndex(name) == name[Len(name)]

\* Map.set(key, value)
MapSet(map, key, value) ==
  [k \in DOMAIN map \cup {key} |-> IF k = key THEN value ELSE map[k]]

\* the variables of a palette
PaletteVariables(variables, paletteName) ==
  {v \in variables : StartsWithPalette(v.name, paletteName)}

\* _getExistingPaletteVariables: the map from the last part of the name to
\* the variable.  When two variables of the palette end in the same part the
\* one set last stays, and getLocalVariablesAsync states no order: every
\* choice is a possible map
ExistingPaletteVariables(variables, paletteName) ==
  {existing \in [{LastPart(v.name) : v \in PaletteVariables(variables, paletteName)}
                   -> {v.id : v \in PaletteVariables(variables, paletteName)}] :
     \A index \in DOMAIN existing :
       \E v \in PaletteVariables(variables, paletteName) :
         v.id = existing[index] /\ LastPart(v.name) = index}

\* _extractColorIndices
ExtractColorIndices(cs) ==
  {VariableIndex(cs[k].name) : k \in {j \in 1..Len(cs) : ~cs[j].isBlack /\ ~cs[j].isWhite}}

\* variable.setValueForMode(this.defaultMode, colorValue) on a variable of
\* the document
SetValueForMode(variables, id, colorValue) ==
  {IF v.id = id THEN [v EXCEPT !.value = colorValue] ELSE v : v \in variables}

\* figma.variables.createVariable(variableName, this.collection, 'COLOR')
\* followed by setValueForMode
CreateVariable(doc, variableName, key, colorValue) ==
  [doc EXCEPT !.variables = @ \cup {[id |-> doc.nextId, name |-> variableName,
                                     value |-> colorValue]},
              !.nextId = @ + 1,
              !.variableMap = MapSet(@, key, doc.nextId)]

\* _createOrUpdateVariable for one color, and variableMap.set(variableIndex,
\* variable)
CreateOrUpdateVariable(color, paletteName, existingVariables, doc) ==
  IF VariableIndex(color.name) \in DOMAIN existingVariables
  THEN [doc EXCEPT !.variables = SetValueForMode(@, existingVariables[VariableIndex(color.name)],
                                                 color.rgb),
                   !.variableMap = MapSet(@, VariableIndex(color.name),
                                          existingVariables[VariableIndex(color.name)])]
  ELSE CreateVariable(doc, VariableName(paletteName, VariableIndex(color.name)),
                      VariableIndex(color.name), color.rgb)

\* the loop over the colors (lines 116-126), from color k on
RECURSIVE CreateOrUpdateFrom(_, _, _, _, _)
CreateOrUpdateFrom(cs, k, paletteName, existingVariables, doc) ==
  IF k > Len(cs) THEN doc
  ELSE IF cs[k].isBlack \/ cs[k].isWhite
  THEN CreateOrUpdateFrom(cs, k + 1, paletteName, existingVariables, doc)
  ELSE CreateOrUpdateFrom(cs, k + 1, paletteName, existingVariables,
                          CreateOrUpdateVariable(cs[k], paletteName, existingVariables, doc))

\* _removeUnusedVariables
RemoveUnusedVariables(existingVariables, newIndices, doc) ==
  [doc EXCEPT !.variables =
     {v \in @ : ~\E index \in DOMAIN existingVariables \ newIndices :
                   existingVariables[index] = v.id}]

\* the variable of the given name in allVariables, 0 when there is none
FindVariable(allVariables, name) ==
  IF \E v \in allVariables : v.name = name
  THEN (CHOOSE v \in allVariables : v.name = name).id
  ELSE 0

\* one iteration of the loop of _handleNeutralColors (lines 258-285).  The
\* existing variable comes from the list read before the unused variables
\* were removed; setValueForMode on a removed variable either raises an
\* error, which ends the call, or has no effect
HandleNeutralColor(color, key, existing, removedRaises, doc) ==
  IF doc.raised THEN doc
  ELSE IF existing = 0
  THEN CreateVariable(doc, <<COLLECTION_NAMES_NEUTRAL, key>>, key, color.rgb)
  ELSE IF \E v \in doc.variables : v.id = existing
  THEN [doc EXCEPT !.variables = SetValueForMode(@, existing, color.rgb),
                   !.variableMap = MapSet(@, key, existing)]
  ELSE IF removedRaises THEN [doc EXCEPT !.raised = TRUE]
  ELSE [doc EXCEPT !.variableMap = MapSet(@, key, existing)]

\* _handleNeutralColors and the copy of its map into variableMap (lines
\* 132-136), from color k on
RECURSIVE HandleNeutralColorsFrom(_, _, _, _, _)
HandleNeutralColorsFrom(cs, k, allVariables, removedRaises, doc) ==
  IF k > Len(cs) THEN doc
  ELSE IF ~cs[k].isBlack /\ ~cs[k].isWhite
  THEN HandleNeutralColorsFrom(cs, k + 1, allVariables, removedRaises, doc)
  ELSE HandleNeutralColorsFrom(cs, k + 1, allVariables, removedRaises,
         HandleNeutralColor(cs[k], IF cs[k].isBlack THEN "Black" ELSE "White",
           FindVariable(allVariables,
                        <<COLLECTION_NAMES_NEUTRAL,
                          IF cs[k].isBlack THEN "Black" ELSE "White">>),
           removedRaises, doc))

\* createPaletteVariables (lines 100-139) on the local variables read at
\* line 108
CreatePaletteVariables(cs, paletteName, variables, nextId, existing, removedRaises) ==
  HandleNeutralColorsFrom(cs, 1, variables, removedRaises,
    RemoveUnusedVariables(existing, ExtractColorIndices(cs),
      CreateOrUpdateFrom(cs, 1, paletteName, existing,
        [variables |-> variables, nextId |-> nextId, variableMap |-> <<>>,
         raised |-> FALSE])))

\* the palette names and the steps of the imported palettes
PaletteNames == {<<"P">>, <<"P", "x">>, <<COLLECTION_NAMES_NEUTRAL>>}
StepLists == {<<"10">>, <<"20", "10">>}

\* the colors of an import, as the UI exports them: named by
\* generateColorNames, black first and white last when included, all with
\* the color value of the import
ExportedColors(baseName, steps, includeBlackWhite, rgb) ==
  (IF includeBlackWhite
   THEN <<[name |-> <<"Black">>, rgb |-> rgb, isBlack |-> TRUE, isWhite |-> FALSE]>>
   ELSE <<>>)
  \o [k \in 1..Len(steps) |->
        [name |-> StepName(baseName, steps[k]), rgb |-> rgb,
         isBlack |-> FALSE, isWhite |-> FALSE]]
  \o (IF includeBlackWhite
      THEN <<[name |-> <<"White">>, rgb |-> rgb, isBlack |-> FALSE, isWhite |-> TRUE]>>
      ELSE <<>>)

NoImport == [completed |-> FALSE, number |-> 0]

\* the number of imports made
ImportNumber == lastImport.number

\* the number of messages the UI posts to the plugin
MaxMessages == 2

MessageIds == 1..MaxMessages

\* the messages: 'create-palette' with and without variables, and a message
\* of another type.  Every 'create-palette' message carries the palette name
\* 'P' and one main color named 'Color 10'
PluginMessages ==
  {[type |-> "create-palette", withVariables |-> w] : w \in BOOLEAN}
    \cup {[type |-> "other", withVariables |-> FALSE]}

importedVariableName == VariableName(<<"P">>, "10")

\* VariableManager.collection = null
NoCollection == 0

NoVariable == 0

\* a message that has not arrived
NotReceived ==
  [pc |-> "idle", msg |-> [type |-> "none", withVariables |-> FALSE],
   collections |-> {}, variables |-> {}, variable |-> NoVariable, thrown |-> ""]

\* an empty document
InitFigma ==
  /\ localVariables = {}
  /\ nextVariableId = 1
  /\ lastImport = NoImport
  /\ previousImport = NoImport
  /\ variablesBefore = {}
  /\ handlers = [m \in MessageIds |-> NotReceived]
  /\ figma = [collections |-> {}, variables |-> {}, frames |-> {}, posted |-> <<>>]
  /\ variableManager = [collection |-> NoCollection]
  /\ frameBuilder = [fontLoaded |-> FALSE]

\* the record of a call and of the state it leaves
ImportOf(paletteName, steps, includeBlackWhite, rgb, doc) ==
  [completed |-> ~doc.raised, paletteName |-> paletteName,
   indices |-> {steps[k] : k \in 1..Len(steps)},
   includeBlackWhite |-> includeBlackWhite, rgb |-> rgb,
   variableMap |-> doc.variableMap, variables |-> doc.variables, nextId |-> doc.nextId]

\* a 'create-palette' message with withVariables set: the call
\* createPaletteVariables(colors, paletteName).  The colors of the n-th
\* import have the color value n
CreatePaletteVariablesCall ==
  /\ ImportNumber < MaxImports
  /\ \E paletteName \in PaletteNames, steps \in StepLists,
        includeBlackWhite \in BOOLEAN, removedRaises \in BOOLEAN :
     \E existingVariables \in ExistingPaletteVariables(localVariables, paletteName) :
     \E import \in {ImportOf(paletteName, steps, includeBlackWhite, ImportNumber + 1,
                      CreatePaletteVariables(
                        ExportedColors("Color", steps, includeBlackWhite, ImportNumber + 1),
                        paletteName, localVariables, nextVariableId,
                        existingVariables, removedRaises))} :
       /\ localVariables' = import.variables
       /\ nextVariableId' = import.nextId
       /\ lastImport' = [completed |-> import.completed, paletteName |-> paletteName,
                         indices |-> import.indices,
                         includeBlackWhite |-> includeBlackWhite,
                         rgb |-> import.rgb, variableMap |-> import.variableMap,
                         number |-> ImportNumber + 1]
       /\ previousImport' = lastImport
       /\ variablesBefore' = localVariables
  /\ UNCHANGED <<curveVars, paletteVars, uiVars, messageVars>>

-----------------------------------------------------------------------------
(* MessageHandler: the handlers of the messages, suspended at their awaits *)

\* the response posted for a failure alone
SendResponseOfFailureOnly(fg, m, success, error) ==
  IF success THEN fg
  ELSE [fg EXCEPT !.posted = Append(@, [message |-> m, success |-> success, error |-> error])]

\* _sendResponse: figma.ui.postMessage of a 'palette-created' response; m is
\* the message whose handler posts it
SendResponse(fg, m, success, error) ==
  [fg EXCEPT !.posted = Append(@, [message |-> m, success |-> success, error |-> error])]

\* FrameBuilder.loadFont as createPaletteFrame enters it: with the font loaded
\* it returns at once, else it awaits figma.loadFontAsync
LoadFont == IF frameBuilder.fontLoaded THEN "createFrame" ELSE "loadFontAsync"

\* the catch block of handleMessage for handler m and the error thrown
Catch(m, error) ==
  /\ handlers' = [handlers EXCEPT ![m].pc = "done", ![m].thrown = error]
  /\ figma' = SendResponse(figma, m, FALSE, error)

\* figma.ui.onmessage starts handleMessage, which runs to its first await: a
\* message of another type returns at once, withVariables awaits
\* getLocalVariableCollectionsAsync in initialize, else createPaletteFrame
\* awaits loadFont
HandleMessage(m) ==
  /\ handlers[m].pc = "idle"
  /\ \A k \in 1..(m - 1) : handlers[k].pc # "idle"
  /\ \E msg \in PluginMessages :
       handlers' = [handlers EXCEPT
                      ![m].msg = msg,
                      ![m].pc = IF msg.type # "create-palette" THEN "done"
                                ELSE IF msg.withVariables
                                     THEN "getLocalVariableCollectionsAsync"
                                     ELSE LoadFont]
  /\ UNCHANGED <<figma, variableManager, frameBuilder>>
  /\ UNCHANGED <<curveVars, paletteVars, uiVars, importVars>>

\* Figma answers getLocalVariableCollectionsAsync with the collections the
\* document has at that moment
CollectionsAnswered(m) ==
  /\ handlers[m].pc = "getLocalVariableCollectionsAsync"
  /\ handlers' = [handlers EXCEPT ![m].pc = "initialize",
                                  ![m].collections = figma.collections]
  /\ UNCHANGED <<figma, variableManager, frameBuilder>>
  /\ UNCHANGED <<curveVars, paletteVars, uiVars, importVars>>

\* initialize resumes: the collection named 'Global' of the answer, or a new
\* one; then createPaletteVariables awaits getLocalVariablesAsync
Initialize(m) ==
  /\ handlers[m].pc = "initialize"
  /\ \E collection \in (IF handlers[m].collections # {} THEN handlers[m].collections
                        ELSE {Cardinality(figma.collections) + 1}) :
       /\ variableManager' = [variableManager EXCEPT !.collection = collection]
       /\ figma' = [figma EXCEPT !.collections = @ \cup {collection}]
  /\ handlers' = [handlers EXCEPT ![m].pc = "getLocalVariablesAsync"]
  /\ UNCHANGED frameBuilder
  /\ UNCHANGED <<curveVars, paletteVars, uiVars, importVars>>

\* Figma answers getLocalVariablesAsync with the variables the document has
\* at that moment
VariablesAnswered(m) ==
  /\ handlers[m].pc = "getLocalVariablesAsync"
  /\ handlers' = [handlers EXCEPT ![m].pc = "createOrUpdateVariable",
                                  ![m].variables = figma.variables]
  /\ UNCHANGED <<figma, variableManager, frameBuilder>>
  /\ UNCHANGED <<curveVars, paletteVars, uiVars, importVars>>

\* createPaletteVariables resumes: the variable of the answer keyed '10' is
\* updated, or 'P/10' is created in this.collection.  figma.variables
\* .createVariable with a name the collection already has either throws or
\* creates a second variable of that name
CreatePaletteVariablesResumed(m) ==
  /\ handlers[m].pc = "createOrUpdateVariable"
  /\ LET existing == {v \in handlers[m].variables : v.name = importedVariableName}
         created == [id |-> Cardinality(figma.variables) + 1,
                     name |-> importedVariableName,
                     collection |-> variableManager.collection, value |-> m]
         duplicate == \E w \in figma.variables :
                        w.name = created.name /\ w.collection = created.collection
     IN  IF existing # {}
         THEN \E v \in existing :
                /\ figma' = [figma EXCEPT !.variables =
                               {IF w.id = v.id THEN [w EXCEPT !.value = m] ELSE w : w \in @}]
                /\ handlers' = [handlers EXCEPT ![m].pc = "variablesCreated",
                                                ![m].variable = v.id]
         ELSE \/ /\ figma' = [figma EXCEPT !.variables = @ \cup {created}]
                 /\ handlers' = [handlers EXCEPT ![m].pc = "variablesCreated",
                                                 ![m].variable = created.id]
              \/ /\ duplicate
                 /\ Catch(m, "duplicate variable name")
  /\ UNCHANGED <<variableManager, frameBuilder>>
  /\ UNCHANGED <<curveVars, paletteVars, uiVars, importVars>>

\* handleMessage resumes after createPaletteVariables and enters
\* createPaletteFrame, which awaits loadFont
CreatePaletteFrame(m) ==
  /\ handlers[m].pc = "variablesCreated"
  /\ handlers' = [handlers EXCEPT ![m].pc = LoadFont]
  /\ UNCHANGED <<figma, variableManager, frameBuilder>>
  /\ UNCHANGED <<curveVars, paletteVars, uiVars, importVars>>

\* figma.loadFontAsync resolves and loadFont resumes
FontLoaded(m) ==
  /\ handlers[m].pc = "loadFontAsync"
  /\ frameBuilder' = [frameBuilder EXCEPT !.fontLoaded = TRUE]
  /\ handlers' = [handlers EXCEPT ![m].pc = "createFrame"]
  /\ UNCHANGED <<figma, variableManager>>
  /\ UNCHANGED <<curveVars, paletteVars, uiVars, importVars>>

\* figma.loadFontAsync rejects: the error reaches the catch of handleMessage
FontRejected(m) ==
  /\ handlers[m].pc = "loadFontAsync"
  /\ Catch(m, "font not available")
  /\ UNCHANGED <<variableManager, frameBuilder>>
  /\ UNCHANGED <<curveVars, paletteVars, uiVars, importVars>>

\* createPaletteFrame resumes after loadFont and builds the frame, then
\* handleMessage sends the success response
CreateFrame(m) ==
  /\ handlers[m].pc = "createFrame"
  /\ figma' = SendResponse([figma EXCEPT !.frames = @ \cup {m}], m, TRUE, "")
  /\ handlers' = [handlers EXCEPT ![m].pc = "done"]
  /\ UNCHANGED <<variableManager, frameBuilder>>
  /\ UNCHANGED <<curveVars, paletteVars, uiVars, importVars>>

\* a step of the handler of message m after its start
Resume(m) ==
  \/ CollectionsAnswered(m)
  \/ Initialize(m)
  \/ VariablesAnswered(m)
  \/ CreatePaletteVariablesResumed(m)
  \/ CreatePaletteFrame(m)
  \/ FontLoaded(m)
  \/ FontRejected(m)
  \/ CreateFrame(m)

-----------------------------------------------------------------------------
(* generateDesaturatedCurve as a function of its arguments *)

\* the positions of the saturation control: 0, 50 and 100 percent
SaturationPercents == {0, 50, 100}

\* a call generateDesaturatedCurve(nMain, saturationPercent), next to the call
\* generateCurvePoints(nMain)
GenerateDesaturatedCurveCall ==
  /\ ~desaturatedCurve.called
  /\ \E nMain \in Exponents, saturationPercent \in SaturationPercents :
       desaturatedCurve' = [called |-> TRUE, nMain |-> nMain,
                       saturationPercent |-> saturationPercent,
                       main |-> GenerateCurvePointsOfExponent(nMain),
                       curve |-> GenerateDesaturatedCurveOfExponent(nMain, saturationPercent)]
  /\ UNCHANGED <<params, colors, colorName, namedColors, placement>>
  /\ UNCHANGED <<curveVars, uiVars, figmaVars>>

-----------------------------------------------------------------------------
(* AppState._notify and the observer UIController._handleStateChange *)

\* the number of notifications raised by the mutators of AppState
MaxNotifications == 3

\* the depth of nested notifications up to which the model follows a cascade
MaxDepth == 4

\* the change types AppState notifies
ChangeTypes == {"color", "settings", "feature", "colors", "saturation-control", "preset"}

\* an observer that regenerates the colors on every change type
RegeneratesOnEveryChange(changeType) == changeType \in ChangeTypes

\* the cases of _handleStateChange that call _regenerateColors
Regenerates(changeType) ==
  changeType \in {"color", "settings", "feature", "saturation-control", "preset"}

\* the notification being handled
Top == callStack[Len(callStack)]

\* a mutator of AppState calls _notify(changeType): the observer is called
Notify ==
  /\ callStack = <<>>
  /\ Len(handled) < MaxNotifications
  /\ \E changeType \in ChangeTypes :
       /\ callStack' = <<[changeType |-> changeType, regenerated |-> FALSE]>>
       /\ handled' = Append(handled, changeType)
  /\ cascade' = [raised |-> <<>>, calls |-> 0]
  /\ UNCHANGED <<curveVars, paletteVars, figmaVars, state, dom, requests>>

\* the observer reaches _regenerateColors: generatePalette is called and
\* updateGeneratedColors notifies "colors", a nested call of the observer
ObserverRegenerates ==
  /\ callStack # <<>>
  /\ Len(callStack) < MaxDepth
  /\ Regenerates(Top.changeType)
  /\ ~Top.regenerated
  /\ callStack' = Append([callStack EXCEPT ![Len(callStack)].regenerated = TRUE],
                         [changeType |-> "colors", regenerated |-> FALSE])
  /\ cascade' = [raised |-> Append(cascade.raised, "colors"), calls |-> cascade.calls + 1]
  /\ UNCHANGED handled
  /\ UNCHANGED <<curveVars, paletteVars, figmaVars, state, dom, requests>>

\* the observer returns from the notification it handles
ObserverReturns ==
  /\ callStack # <<>>
  /\ ~Regenerates(Top.changeType) \/ Top.regenerated
  /\ callStack' = SubSeq(callStack, 1, Len(callStack) - 1)
  /\ UNCHANGED <<cascade, handled>>
  /\ UNCHANGED <<curveVars, paletteVars, figmaVars, state, dom, requests>>

-----------------------------------------------------------------------------
(* Specifications *)

\* the curve engine
Init ==
  /\ InitCurve
  /\ params = Request(initialState) /\ colors = NotGenerated
  /\ colorName = "Color" /\ namedColors = NotGenerated
  /\ placement = NotCalled
  /\ desaturatedCurve = NotCalled
  /\ InitUI
  /\ InitFigma

Next ==
  \/ SampleStep
  \/ ReturnCurve
  \/ LookupArcLength
  \/ LookupClosest

Spec == Init /\ [][Next]_vars

\* generatePalette
InitP ==
  /\ InitPalette
  /\ InitCurve
  /\ InitUI
  /\ InitFigma

NextP ==
  \/ GeneratePaletteCall
  \/ GenerateColorNamesCall

SpecPalette == InitP /\ [][NextP]_vars

\* generateCurvePoints with samples that raise an exception
NextRaising ==
  \/ SampleStep
  \/ SampleRaises
  \/ SampleAfterDrop
  \/ ReturnCurve

SpecRaising == Init /\ [][NextRaising]_vars

\* _calculateArcLength
NextPlacement == CalculateArcLengthCall

SpecPlacement == Init /\ [][NextPlacement]_vars

\* the VariableManager of the plugin
NextFigma == CreatePaletteVariablesCall

SpecFigma == Init /\ [][NextFigma]_vars

\* the message handlers of the plugin
NextMessages == \E m \in MessageIds : HandleMessage(m) \/ Resume(m)

SpecMessages == Init /\ [][NextMessages]_vars

\* the event loop resumes every handler whose awaited promise has settled,
\* and Figma settles every promise
SpecMessagesFair == SpecMessages /\ \A m \in MessageIds : WF_vars(Resume(m))

\* the notifications of AppState
NextNotify ==
  \/ Notify
  \/ ObserverRegenerates
  \/ ObserverReturns

SpecNotify == Init /\ [][NextNotify]_vars

\* the observer runs synchronously: a notification being handled goes on
SpecNotifyFair == SpecNotify /\ WF_vars(ObserverRegenerates \/ ObserverReturns)

\* the desaturated curve
NextDesaturated == GenerateDesaturatedCurveCall

SpecDesaturated == Init /\ [][NextDesaturated]_vars

\* findExponent
NextExponent ==
  \/ FindExponentCall
  \/ BisectStep
  \/ FindExponentExit

SpecExponent == Init /\ [][NextExponent]_vars

\* the UI
NextUI ==
  \/ ClickSmartSpacing
  \/ ClickBlackWhite
  \/ ContrastInput
  \/ ContrastDragStart
  \/ ContrastDragMove
  \/ ContrastDragEnd
  \/ ColorCountInput
  \/ PresetClick
  \/ ColorChange
  \/ SaturationControlChange

SpecUI == Init /\ [][NextUI]_vars

-----------------------------------------------------------------------------
(* Properties of generatePalette (SpecPalette) *)

\* the palette has been generated
Generated == colors # NotGenerated

\* the swatches of the palette other than the fixed black and white ones
Main == SelectSeq(colors, LAMBDA c : ~c.isBlack /\ ~c.isWhite)

\* the position of the anchor swatch in Main
SelectedIndex == CHOOSE k \in 1..Len(Main) : Main[k].isSelected

\* the arc length of the anchor and the numbers of swatches on its two sides
AnchorArc == Main[SelectedIndex].arcLength
PointsBefore == SelectedIndex - 1
PointsAfter == Len(Main) - SelectedIndex

\* C1: without black and white, generatePalette returns exactly colorCount
\* swatches, and exactly one of them, the one marked isSelected, has the arc
\* length of the anchor.
C1_CountAndOneAtAnchor ==
  (Generated /\ ~params.includeBlackWhite) =>
    /\ Len(colors) = params.colorCount
    /\ Cardinality({k \in 1..Len(colors) : colors[k].isSelected}) = 1
    /\ \A k \in 1..Len(colors) :
         colors[k].arcLength = AnchorArc <=> colors[k].isSelected

\* C4: for an anchor whose arc length is strictly between 0 and 1, the arc
\* lengths of the swatches (without black and white) are strictly increasing
\* in list order: those before the anchor lie strictly between 0 and the
\* anchor's, those after it strictly between the anchor's and 1.
C4_StrictlyIncreasing ==
  (Generated /\ ~params.includeBlackWhite /\ RLt(Zero, AnchorArc) /\ RLt(AnchorArc, One)) =>
    /\ \A k \in 1..(Len(colors) - 1) : RLt(colors[k].arcLength, colors[k + 1].arcLength)
    /\ \A k \in 1..Len(colors) :
         /\ k < SelectedIndex =>
              RLt(Zero, colors[k].arcLength) /\ RLt(colors[k].arcLength, AnchorArc)
         /\ k > SelectedIndex =>
              RLt(AnchorArc, colors[k].arcLength) /\ RLt(colors[k].arcLength, One)

C4_Witness ==
  /\ Generated /\ ~params.includeBlackWhite
  /\ RLt(Zero, AnchorArc) /\ RLt(AnchorArc, One)
  /\ params.contrast # One
  /\ PointsBefore >= 2 /\ PointsAfter >= 2

\* C5: with smart spacing on and contrast 1.0, pointsBefore is
\* round(anchorArc * (count - 1)) and pointsAfter the rest, except that when
\* one side is 0 and the other more than 1 one point moves to the empty
\* side; so the two sides add up to count - 1 and, from count 3 on, neither
\* is empty.  An anchor at 0.7 with count 11 gives 7 and 3.
C5_SmartSplit ==
  /\ SplitPoints(11, Rat(7, 10), One, TRUE) = <<7, 3>>
  /\ (Generated /\ params.smartSpacing /\ params.contrast = One) =>
       LET distribute == params.colorCount - 1
           rounded == RRound(RMul(AnchorArc, RInt(distribute)))
           rest == distribute - rounded
       IN  /\ PointsBefore + PointsAfter = distribute
           /\ params.colorCount >= 3 => PointsBefore >= 1 /\ PointsAfter >= 1
           /\ PointsBefore = IF rounded = 0 /\ rest > 1 THEN 1
                             ELSE IF rest = 0 /\ rounded > 1 THEN rounded - 1
                             ELSE rounded

C5_Witness ==
  /\ Generated /\ params.smartSpacing /\ params.contrast = One
  /\ params.colorCount >= 3
  /\ RRound(RMul(AnchorArc, RInt(params.colorCount - 1))) = 0
  /\ PointsBefore = 1

\* C6: when smart spacing is not in effect (off, or contrast other than
\* 1.0), an odd count puts (count - 1) / 2 swatches on each side of the
\* anchor; an even count puts floor((count - 1) / 2) on one side and
\* ceil((count - 1) / 2) on the other, the larger number on the side whose
\* span of arc length is larger.  Count 10 gives 4 and 5.
C6_EvenSplit ==
  /\ LET split == SplitPoints(10, Rat(1, 4), One, FALSE)
     IN  {split[1], split[2]} = {4, 5}
  /\ (Generated /\ ~(params.smartSpacing /\ params.contrast = One)) =>
       LET distribute == params.colorCount - 1
           smaller == distribute \div 2
           larger == distribute - smaller
       IN  IF params.colorCount % 2 = 1
           THEN PointsBefore = smaller /\ PointsAfter = smaller
           ELSE /\ {PointsBefore, PointsAfter} = {smaller, larger}
                /\ RLt(RSub(One, AnchorArc), AnchorArc) => PointsBefore = larger
                /\ RLt(AnchorArc, RSub(One, AnchorArc)) => PointsAfter = larger

C6_Witness ==
  /\ Generated /\ params.smartSpacing /\ params.contrast # One
  /\ params.colorCount = 4
  /\ RLt(AnchorArc, RSub(One, AnchorArc))
  /\ PointsBefore = 1 /\ PointsAfter = 2

\* C7: for colorCount 1 only the anchor swatch is returned, no swatch on
\* either side of it, whatever smartSpacing and contrast are.
C7_OnlyAnchor ==
  (Generated /\ params.colorCount = 1) =>
    /\ Len(Main) = 1 /\ Main[1].isSelected
    /\ PointsBefore = 0 /\ PointsAfter = 0
    /\ ~params.includeBlackWhite => Len(colors) = 1

C7_Witness ==
  /\ Generated /\ params.colorCount = 1
  /\ params.smartSpacing /\ params.contrast # One
  /\ Len(colors) = 1 /\ colors[1].isSelected

\* C8: with includeBlackWhite the palette has colorCount + 2 swatches: the
\* first is the black one (isBlack, arc length 0, s = 0, v = 0), the last the
\* white one (isWhite, arc length 1, s = 0, v = 100), and those between them
\* are the palette of the same request without black and white.
C8_BlackWhite ==
  (Generated /\ params.includeBlackWhite) =>
    LET n == Len(colors)
        plain == GeneratePalette([params EXCEPT !.includeBlackWhite = FALSE]).colors
    IN  /\ n = params.colorCount + 2
        /\ colors[1].isBlack /\ colors[1].arcLength = Zero
        /\ colors[1].s = Zero /\ colors[1].v = Zero
        /\ colors[n].isWhite /\ colors[n].arcLength = One
        /\ colors[n].s = Zero /\ colors[n].v = RInt(100)
        /\ SubSeq(colors, 2, n - 1) = plain

C8_Witness ==
  /\ Generated /\ params.includeBlackWhite
  /\ params.colorCount >= 3
  /\ Len(colors) = params.colorCount + 2
  /\ colors[1].isBlack /\ colors[Len(colors)].isWhite

-----------------------------------------------------------------------------
(* Properties of the UI (SpecUI) *)

\* C2: in every request the UI passes to generatePalette, smartSpacing
\* implies contrast = 1.0.
C2_RequestsExclusive ==
  \A k \in 1..Len(requests) : requests[k].smartSpacing => requests[k].contrast = One

\* C3: after every UI event handler has run to completion,
\* features.smartSpacing implies contrast = 1.0.
C3_StateExclusive == state.smartSpacing => state.contrast = One

C3_Witness ==
  /\ state.smartSpacing /\ state.contrast = One
  /\ Len(requests) = 2 /\ requests[1].smartSpacing /\ requests[1].contrast # One

-----------------------------------------------------------------------------
(* Properties of the curve engine (Spec) *)

\* C9: the curve generateCurvePoints returns is non-empty, its
\* normalizedArcLength values are non-decreasing in index order, the first is
\* 0 and the last is 1, also when segments below the skip threshold add no
\* arc length.
C9_CurveNormalized ==
  curvePoints # <<>> =>
    /\ Len(curvePoints) >= 1
    /\ curvePoints[1].normalizedArcLength = Zero
    /\ curvePoints[Len(curvePoints)].normalizedArcLength = One
    /\ \A k \in 1..(Len(curvePoints) - 1) :
         RLe(curvePoints[k].normalizedArcLength, curvePoints[k + 1].normalizedArcLength)

C9_Witness ==
  /\ curvePoints # <<>>
  /\ \E k \in 1..(Len(curvePoints) - 1) :
       curvePoints[k].arcLength = curvePoints[k + 1].arcLength
  /\ \E k \in 1..(Len(curvePoints) - 1) :
       RLt(curvePoints[k].normalizedArcLength, curvePoints[k + 1].normalizedArcLength)
  /\ curvePoints[Len(curvePoints)].normalizedArcLength = One

\* C10: findPointAtArcLength(q, curve) returns the first sample of the curve
\* for every q <= 0 and the last sample for every q >= 1.
C10_BoundaryLookup ==
  lookup.op = "findPointAtArcLength" =>
    /\ RLe(lookup.q, Zero) => lookup.result = curvePoints[1]
    /\ RLe(One, lookup.q) => lookup.result = curvePoints[Len(curvePoints)]

C10_Witness ==
  /\ lookup.op = "findPointAtArcLength"
  /\ RLt(lookup.q, Zero)
  /\ lookup.result = curvePoints[1]
  /\ curvePoints[1] # curvePoints[Len(curvePoints)]

\* the epsilon of the round trip
RoundTripEpsilon == Rat(1, 1000)

\* C11: round trip.  For p = findClosestPoint(x, y, curve) on a generated
\* curve, findPointAtArcLength(p.normalizedArcLength, curve) has the x and y
\* of p up to a small epsilon.
C11_RoundTrip ==
  lookup.op = "findClosestPoint" =>
    LET p == lookup.result
        back == FindPointAtArcLength(p.normalizedArcLength, curvePoints)
    IN  /\ ~IsNaN(back.x) /\ ~IsNaN(back.y)
        /\ RLe(RSub(back.x, p.x), RoundTripEpsilon)
        /\ RLe(RSub(p.x, back.x), RoundTripEpsilon)
        /\ RLe(RSub(back.y, p.y), RoundTripEpsilon)
        /\ RLe(RSub(p.y, back.y), RoundTripEpsilon)

\* the closest point is a projection strictly inside a segment
C11_Witness ==
  /\ lookup.op = "findClosestPoint"
  /\ \A k \in 1..Len(curvePoints) :
       curvePoints[k].normalizedArcLength # lookup.result.normalizedArcLength
  /\ FindPointAtArcLength(lookup.result.normalizedArcLength, curvePoints).x
       = lookup.result.x

-----------------------------------------------------------------------------
(* findExponent *)

\* the call has returned
Returned == search.pc = "returned"

\* |x^n + y^n - 1| < 0.01 at the returned exponent
ResidualBelowHundredth ==
  Abs(Residual(search.x, search.y, search.result)) * 100 < PowUnit

\* as stated in C12: every call with 0 < x < 1 and 0 < y < 1 returns an
\* exponent n with |x^n + y^n - 1| < 0.01
C12_ResidualAlwaysSmall == Returned => ResidualBelowHundredth

\* C12: a call with both coordinates above 0.001 and x^25 + y^25 <= 1, so
\* that the bracket [N_MIN, N_MAX] holds a root, returns an exponent n with
\* |x^n + y^n - 1| < 0.01
C12_ResidualSmallWhenBracketed ==
  (/\ Returned
   /\ ~AtMostMinThreshold(search.x) /\ ~AtMostMinThreshold(search.y)
   /\ Residual(search.x, search.y, SUPERELLIPSE_N_MAX) <= 0)
  => ResidualBelowHundredth

C12_Witness ==
  /\ Returned
  /\ search.iterations > 3
  /\ search.x # search.y
  /\ Residual(search.x, search.y, SUPERELLIPSE_N_MAX) <= 0
  /\ ResidualBelowHundredth

\* C13: findExponent returns N_MIN when a coordinate is at most 0.001,
\* whatever the other one is, and N_MAX when both are at least 0.99;
\* otherwise it runs at most MAX_ITERATIONS bisection steps, the bracket
\* stays inside [N_MIN, N_MAX], and the result is in [N_MIN, N_MAX]
C13_BoundedBisection ==
  /\ search.pc = "loop" =>
       /\ search.i <= SUPERELLIPSE_MAX_ITERATIONS
       /\ SUPERELLIPSE_N_MIN <= search.nMin
       /\ search.nMin <= search.nMax
       /\ search.nMax <= SUPERELLIPSE_N_MAX
  /\ Returned =>
       /\ search.iterations <= SUPERELLIPSE_MAX_ITERATIONS
       /\ SUPERELLIPSE_N_MIN <= search.result
       /\ search.result <= SUPERELLIPSE_N_MAX
       /\ AtMostMinThreshold(search.x) \/ AtMostMinThreshold(search.y) =>
            search.result = SUPERELLIPSE_N_MIN /\ search.iterations = 0
       /\ AtLeastMaxThreshold(search.x) /\ AtLeastMaxThreshold(search.y) =>
            search.result = SUPERELLIPSE_N_MAX /\ search.iterations = 0

C13_Witness ==
  /\ Returned
  /\ AtMostMinThreshold(search.x)
  /\ AtLeastMaxThreshold(search.y)
  /\ search.result = SUPERELLIPSE_N_MIN

-----------------------------------------------------------------------------
(* generateCurvePoints: samples that raise an exception *)

\* the loop of generateCurvePoints has ended
LoopEnded == i > Resolution

\* the sample indices present in the points pushed by the loop
PushedIndices == {points[k].t : k \in 1..Len(points)}

\* C14: when computing one sample raises an exception, only that sample is
\* dropped: every other sample index is in the curve
C14_OnlyRaisedSampleDropped ==
  LoopEnded => \A k \in 0..Resolution : k \notin raised => k \in PushedIndices

-----------------------------------------------------------------------------
(* generateColorNames *)

\* the step numbers of the names of the main colors, in list order
StepNumbers(named) ==
  LET IsStepName(c) == IsMainColor(c.color)
      main == SelectSeq(named, IsStepName)
  IN  [k \in 1..Len(main) |-> main[k].displayName[2]]

\* C15: the k-th main color (k = 0 for the first of the list, the one
\* nearest the dark end of the curve, arc length 0) is named with the step (N - k) * 10, N being the number of main colors,
\* black and white are named "Black" and "White"; the steps are exactly
\* 10, 20, ..., 10 * N, each once, and are the same for the palette
\* generated with the black/white option switched
C15_StepNames ==
  namedColors # NotGenerated =>
    LET steps == StepNumbers(namedColors)
        N == Len(steps)
        switched == GeneratePalette([params EXCEPT !.includeBlackWhite = ~@]).colors
    IN  /\ Len(namedColors) = Len(colors)
        /\ \A k \in 1..Len(colors) :
             /\ namedColors[k].color = colors[k]
             /\ colors[k].isBlack => namedColors[k].displayName = <<"Black">>
             /\ colors[k].isWhite => namedColors[k].displayName = <<"White">>
             /\ IsMainColor(colors[k]) => namedColors[k].displayName[1] = colorName
        /\ N = Cardinality({k \in 1..Len(colors) : IsMainColor(colors[k])})
        /\ \A k \in 1..N : steps[k] = (N - (k - 1)) * 10
        /\ {steps[k] : k \in 1..N} = {10 * j : j \in 1..N}
        /\ \A j, k \in 1..N : steps[j] = steps[k] => j = k
        /\ N > 0 => steps[1] = 10 * N
        /\ \A j, k \in 1..Len(colors) :
             (j < k /\ IsMainColor(colors[j]) /\ IsMainColor(colors[k]))
               => RLe(colors[j].arcLength, colors[k].arcLength)
        /\ StepNumbers(GenerateColorNames(switched, colorName)) = steps

C15_Witness ==
  /\ namedColors # NotGenerated
  /\ params.includeBlackWhite
  /\ Len(namedColors) = 5
  /\ namedColors[1].displayName = <<"Black">>
  /\ namedColors[2].displayName = <<"Blue", 30>>
  /\ namedColors[4].displayName = <<"Blue", 10>>
  /\ namedColors[5].displayName = <<"White">>

-----------------------------------------------------------------------------
(* VariableManager *)

\* the names of the variables of the last import's palette
PaletteVariableNames ==
  {v.name : v \in PaletteVariables(localVariables, lastImport.paletteName)}

\* the names 'P/<step>' for the steps of the last import
StepVariableNames ==
  {VariableName(lastImport.paletteName, index) : index \in lastImport.indices}

\* the last two imports have the same palette name and the same steps
Reimported ==
  /\ lastImport.completed /\ previousImport.completed
  /\ lastImport.paletteName = previousImport.paletteName
  /\ lastImport.indices = previousImport.indices

\* C16: after two imports in a row of the same palette name and steps, every
\* variable 'P/<step>' that existed after the first is still the same
\* variable, is the only one of its name, and has the value of the second
\* import
C16_ReimportUpdates ==
  Reimported =>
    \A v \in variablesBefore :
      v.name \in StepVariableNames =>
        /\ \E w \in localVariables :
             w.id = v.id /\ w.name = v.name /\ w.value = lastImport.rgb
        /\ Cardinality({w \in localVariables : w.name = v.name}) = 1

\* C17: after an import the variables whose name starts with 'P/' are
\* exactly the 'P/<step>' of the steps of the main colors; with black and
\* white, 'Neutral/Black' and 'Neutral/White' exist and are in the returned
\* map under 'Black' and 'White'
C17_ExactlyTheSteps ==
  lastImport.completed =>
    /\ PaletteVariableNames = StepVariableNames
    /\ lastImport.includeBlackWhite =>
         \A key \in {"Black", "White"} :
           /\ key \in DOMAIN lastImport.variableMap
           /\ \E v \in localVariables :
                /\ v.name = <<COLLECTION_NAMES_NEUTRAL, key>>
                /\ v.id = lastImport.variableMap[key]

-----------------------------------------------------------------------------
(* The parameters of the generatePalette calls of the UI *)

\* C18: in every generatePalette call of the UI the color count is an
\* integer in [COLOR_COUNT_MIN, COLOR_COUNT_MAX] and the contrast a number
\* in [CONTRAST_MIN, CONTRAST_MAX]
C18_ParametersInRange ==
  \A k \in 1..Len(requests) :
    /\ requests[k].colorCount \in COLOR_COUNT_MIN..COLOR_COUNT_MAX
    /\ ~IsNaN(requests[k].contrast)
    /\ RLe(CONTRAST_MIN, requests[k].contrast)
    /\ RLe(requests[k].contrast, CONTRAST_MAX)

-----------------------------------------------------------------------------
(* _calculateArcLength at contrast 1.0 (SpecPlacement).  The numbers are
   exact rationals: two results are equal when they are equal as real
   numbers. *)

\* the call made has contrast 1.0
CalledAtContrastOne == placement.called /\ placement.contrast = One

\* the gap between neighbours on the side of the call
EqualGap ==
  IF placement.isBefore
  THEN RDiv(placement.selectedArc, RInt(placement.total + 1))
  ELSE RDiv(RSub(One, placement.selectedArc), RInt(placement.total + 1))

\* the position of the neighbour of the point towards the anchor: the next
\* point on the before side, the previous one on the after side, and the
\* anchor itself for the point nearest to it
TowardsAnchor ==
  IF placement.isBefore
  THEN IF placement.index + 1 < placement.total
       THEN CalculateArcLength(placement.index + 1, placement.total, placement.selectedArc,
                               placement.contrast, placement.useContrast, TRUE)
       ELSE placement.selectedArc
  ELSE IF placement.index > 0
       THEN CalculateArcLength(placement.index - 1, placement.total, placement.selectedArc,
                               placement.contrast, placement.useContrast, FALSE)
       ELSE placement.selectedArc

\* C19: without contrast (contrast 1.0) point i of a side of total points is
\* at anchorArc * (i + 1) / (total + 1) before the anchor and at
\* anchorArc + (1 - anchorArc) * (i + 1) / (total + 1) after it, and its gap
\* to its neighbour towards the anchor, the anchor included, is the same for
\* every point of the side
C19_EvenPlacement ==
  (CalledAtContrastOne /\ ~placement.useContrast) =>
    /\ placement.isBefore =>
         /\ placement.result =
              RDiv(RMul(placement.selectedArc, RInt(placement.index + 1)),
                   RInt(placement.total + 1))
         /\ RSub(TowardsAnchor, placement.result) = EqualGap
    /\ ~placement.isBefore =>
         /\ placement.result =
              RAdd(placement.selectedArc,
                   RDiv(RMul(RSub(One, placement.selectedArc), RInt(placement.index + 1)),
                        RInt(placement.total + 1)))
         /\ RSub(placement.result, TowardsAnchor) = EqualGap

C19_Witness ==
  /\ CalledAtContrastOne /\ ~placement.useContrast
  /\ placement.isBefore
  /\ placement.total = 3 /\ placement.index = 2
  /\ placement.selectedArc = Rat(1, 2)
  /\ placement.result = Rat(3, 8)

-----------------------------------------------------------------------------
(* _calculateArcLength with contrast (SpecPlacement) *)

\* the point of the call has a neighbour on the side away from the anchor
HasOuterNeighbour ==
  IF placement.isBefore THEN placement.index > 0
  ELSE placement.index + 1 < placement.total

\* the position of that neighbour: the previous point on the before side,
\* the next one on the after side
AwayFromAnchor ==
  CalculateArcLength(IF placement.isBefore THEN placement.index - 1 ELSE placement.index + 1,
                     placement.total, placement.selectedArc, placement.contrast,
                     placement.useContrast, placement.isBefore)

\* the gap between the point and its neighbour towards the anchor, and the
\* gap between the point and its neighbour away from the anchor
InnerGap ==
  IF placement.isBefore THEN RSub(TowardsAnchor, placement.result)
  ELSE RSub(placement.result, TowardsAnchor)
OuterGap ==
  IF placement.isBefore THEN RSub(placement.result, AwayFromAnchor)
  ELSE RSub(AwayFromAnchor, placement.result)

\* the side of the call has a positive length
SideNotEmpty ==
  IF placement.isBefore THEN RLt(Zero, placement.selectedArc)
  ELSE RLt(placement.selectedArc, One)

\* the call is one generatePalette makes with contrast: useContrast is set
\* exactly when the contrast is not 1.0
CalledWithContrast ==
  placement.called /\ placement.useContrast /\ placement.contrast # One

\* C21: with contrast above 1 the gaps between neighbours on a side grow
\* towards the anchor, each gap being smaller than the next one towards the
\* anchor; with contrast below 1 they shrink towards the anchor
C21_GapsGrowTowardsAnchor ==
  (CalledWithContrast /\ HasOuterNeighbour /\ SideNotEmpty) =>
    /\ RLt(One, placement.contrast) => RLt(OuterGap, InnerGap)
    /\ RLt(placement.contrast, One) => RLt(InnerGap, OuterGap)

C21_Witness ==
  /\ CalledWithContrast /\ HasOuterNeighbour
  /\ placement.contrast = RInt(5)
  /\ placement.selectedArc = Rat(1, 2)
  /\ placement.total = MaxCount
  /\ placement.isBefore /\ placement.index = 1
  /\ RLt(OuterGap, InnerGap)

-----------------------------------------------------------------------------
(* findClosestPoint: the coarse and the refined candidates *)

\* a findClosestPoint call has returned
ClosestReturned == lookup # NoLookup /\ lookup.op = "findClosestPoint"

\* squared distance of sample k of the curve to the target of the call
SampleDistance(k) == DistSq(At(curvePoints, k), lookup.target[1], lookup.target[2])

\* the coarse candidate: the lowest index among the samples of minimum distance
CoarseIndex ==
  CHOOSE c \in 0..(Len(curvePoints) - 1) :
    /\ \A k \in 0..(Len(curvePoints) - 1) : RLe(SampleDistance(c), SampleDistance(k))
    /\ \A k \in 0..(c - 1) : RLt(SampleDistance(c), SampleDistance(k))

\* the segments k -> k+1 the refinement loop visits around sample c
SearchWindow(c) ==
  {k \in 0..(Len(curvePoints) - 2) : c - searchRadius <= k /\ k < c + searchRadius}

\* segment k is longer than minSegmentLength
SegmentProjected(k) ==
  At(curvePoints, k).x # At(curvePoints, k + 1).x \/ At(curvePoints, k).y # At(curvePoints, k + 1).y

\* the clamped projection parameter of the target on segment k
ProjectionParameter(k) ==
  LET p1 == At(curvePoints, k)
      p2 == At(curvePoints, k + 1)
      vx == RSub(p2.x, p1.x)
      vy == RSub(p2.y, p1.y)
  IN  Clamp01(RDiv(RAdd(RMul(RSub(lookup.target[1], p1.x), vx),
                        RMul(RSub(lookup.target[2], p1.y), vy)),
                   RAdd(RMul(vx, vx), RMul(vy, vy))))

\* the value between a and b at parameter tt
Interpolate(a, b, tt) == RAdd(a, RMul(tt, RSub(b, a)))

\* the point of segment k at parameter tt
PointOfSegment(k, tt) ==
  [x |-> Interpolate(At(curvePoints, k).x, At(curvePoints, k + 1).x, tt),
   y |-> Interpolate(At(curvePoints, k).y, At(curvePoints, k + 1).y, tt),
   normalizedArcLength |->
     Interpolate(At(curvePoints, k).normalizedArcLength,
                 At(curvePoints, k + 1).normalizedArcLength, tt)]

\* the point the refinement loop builds on segment k
Projection(k) == PointOfSegment(k, ProjectionParameter(k))

ProjectionDistance(k) == DistSq(Projection(k), lookup.target[1], lookup.target[2])

\* the projected segments of the window around sample c
Candidates(c) == {k \in SearchWindow(c) : SegmentProjected(k)}

\* the squared distances of the projections on the segments of cand
ProjectionDistances(cand) == [k \in cand |-> ProjectionDistance(k)]

\* result is what the refinement loop leaves in bestPoint: sample c, or the
\* first of the closest projections when that one is strictly closer
BestOf(result, c, cand, dist) ==
  \/ /\ result = At(curvePoints, c)
     /\ \A k \in cand : ~RLt(dist[k], SampleDistance(c))
  \/ \E k \in cand :
       /\ result = Projection(k)
       /\ RLt(dist[k], SampleDistance(c))
       /\ \A j \in cand : RLe(dist[k], dist[j])
       /\ \A j \in cand : j < k => RLt(dist[k], dist[j])

\* C22: the returned point is no farther from the target than any sample.
\* It is the coarse candidate, the lowest-index sample of minimum distance,
\* unless the projection on a segment within 3 samples of that index is
\* strictly closer; then it is the first of the closest such projections,
\* with normalizedArcLength interpolated by the clamped projection parameter
C22_BestOfCoarseAndRefined ==
  ClosestReturned =>
    /\ \A k \in 0..(Len(curvePoints) - 1) :
         RLe(DistSq(lookup.result, lookup.target[1], lookup.target[2]), SampleDistance(k))
    /\ LET c == CoarseIndex
       IN  BestOf(lookup.result, c, Candidates(c), ProjectionDistances(Candidates(c)))

\* a projection has replaced the coarse candidate on a curve with a segment
\* outside the window
C22_Witness ==
  /\ ClosestReturned
  /\ lookup.result # At(curvePoints, CoarseIndex)
  /\ \E k \in 0..(Len(curvePoints) - 2) : k \notin SearchWindow(CoarseIndex) /\ SegmentProjected(k)

-----------------------------------------------------------------------------
(* findPointAtArcLength: the bracketing pair *)

\* a findPointAtArcLength call has returned
ArcLengthReturned == lookup # NoLookup /\ lookup.op = "findPointAtArcLength"

\* the query lies strictly inside (0, 1): neither boundary return is taken
InteriorQuery == RLt(Zero, lookup.q) /\ RLt(lookup.q, One)

\* normalizedArcLength of sample k
ArcAt(k) == At(curvePoints, k).normalizedArcLength

\* normalizedArcLength runs from 0 to 1 without decreasing
NonDecreasingZeroToOne ==
  /\ ArcAt(0) = Zero
  /\ ArcAt(Len(curvePoints) - 1) = One
  /\ \A k \in 1..(Len(curvePoints) - 1) : RLe(ArcAt(k - 1), ArcAt(k))

\* the condition of the scan on the pair (k - 1, k)
Brackets(k) == RLe(ArcAt(k - 1), lookup.q) /\ RLe(lookup.q, ArcAt(k))

\* v lies between a and b
Between(a, v, b) == RLe(RMin(a, b), v) /\ RLe(v, RMax(a, b))

\* C23: on a curve whose normalizedArcLength runs from 0 to 1 without
\* decreasing, a query strictly between 0 and 1 finds a bracketing pair, the
\* first pair found has two different arc lengths (the division is defined),
\* the returned point lies between the two samples and carries the query as
\* its normalizedArcLength; the return after the loop is not taken
C23_BracketFound ==
  (ArcLengthReturned /\ InteriorQuery /\ NonDecreasingZeroToOne) =>
    \E k \in 1..(Len(curvePoints) - 1) :
      /\ Brackets(k)
      /\ \A j \in 1..(k - 1) : ~Brackets(j)
      /\ RLt(ArcAt(k - 1), ArcAt(k))
      /\ DOMAIN lookup.result = {"x", "y", "normalizedArcLength"}
      /\ lookup.result.normalizedArcLength = lookup.q
      /\ Between(At(curvePoints, k - 1).x, lookup.result.x, At(curvePoints, k).x)
      /\ Between(At(curvePoints, k - 1).y, lookup.result.y, At(curvePoints, k).y)

\* the query equals an arc length that two consecutive samples share
C23_Witness ==
  /\ ArcLengthReturned /\ InteriorQuery /\ NonDecreasingZeroToOne
  /\ \E k \in 1..(Len(curvePoints) - 1) : ArcAt(k - 1) = lookup.q /\ ArcAt(k) = lookup.q
  /\ lookup.result.normalizedArcLength = lookup.q

-----------------------------------------------------------------------------
(* UIController: the generated colors and the toggle button follow the state *)

\* the last handler called generatePalette more than once, and not with the
\* same argument
RegeneratedTwice == Len(requests) > 1 /\ requests[1] # requests[Len(requests)]

\* C24: after every UI event handler, state.generatedColors is the palette
\* generatePalette returns for the current state
C24_GeneratedColorsCurrent == state.generatedFrom = Request(state)

\* a handler that regenerated on a notification, changed the state and
\* regenerated again
C24_Witness ==
  /\ RegeneratedTwice
  /\ state.generatedFrom = requests[Len(requests)]
  /\ state.generatedFrom = Request(state)

\* C25: the Smart Spacing toggle button carries the class 'active' exactly
\* when state.features.smartSpacing is true
C25_ToggleFollowsState == dom.smartSpacingActive <=> state.smartSpacing

-----------------------------------------------------------------------------
(* VariableManager: the variables an import leaves alone *)

\* the name is 'P/<step>' for the palette name P of the last import
NamedAsStepOfPalette(name) ==
  /\ Len(name) = Len(lastImport.paletteName) + 1
  /\ SubSeq(name, 1, Len(lastImport.paletteName)) = lastImport.paletteName

\* the name is 'Neutral/Black' or 'Neutral/White' and the last import has
\* black and white
NeutralOfImport(name) ==
  /\ lastImport.includeBlackWhite
  /\ name \in {<<COLLECTION_NAMES_NEUTRAL, "Black">>, <<COLLECTION_NAMES_NEUTRAL, "White">>}

\* C27: an import of palette P leaves every variable whose name is not
\* 'P/<step>' as it was: the variable is not removed and keeps its value
C27_OtherVariablesUnchanged ==
  ImportNumber > 0 =>
    \A v \in variablesBefore :
      (~NamedAsStepOfPalette(v.name) /\ ~NeutralOfImport(v.name)) => v \in localVariables

-----------------------------------------------------------------------------
(* MessageHandler: collections, variables and responses *)

\* C26: under any interleaving of the handlers there is at most one
\* collection named 'Global', and no two variables of a collection have the
\* same name
C26_OneGlobalCollection ==
  /\ Cardinality(figma.collections) <= 1
  /\ \A v \in figma.variables : \A w \in figma.variables :
       (v.collection = w.collection /\ v.name = w.name) => v.id = w.id

\* the number of responses posted by the handler of message m
ResponsesTo(m) ==
  Cardinality({k \in DOMAIN figma.posted : figma.posted[k].message = m})

\* message m is a 'create-palette' message and its handler has started
Accepted(m) == handlers[m].pc # "idle" /\ handlers[m].msg.type = "create-palette"

\* the handler of m has ended with one response
RespondedOnce(m) == handlers[m].pc = "done" /\ ResponsesTo(m) = 1

\* a success response comes after the variables (when requested) and the frame
\* were created, a failure response carries the message of the error thrown
ResponseSound(r) ==
  /\ handlers[r.message].msg.type = "create-palette"
  /\ handlers[r.message].pc = "done"
  /\ r.success =>
       /\ r.message \in figma.frames
       /\ handlers[r.message].msg.withVariables =>
            \E v \in figma.variables :
              v.id = handlers[r.message].variable /\ v.name = importedVariableName
       /\ handlers[r.message].thrown = ""
  /\ ~r.success =>
       /\ handlers[r.message].thrown # ""
       /\ r.error = handlers[r.message].thrown
       /\ r.message \notin figma.frames

ResponsesSound ==
  /\ \A k \in DOMAIN figma.posted : ResponseSound(figma.posted[k])
  /\ \A m \in MessageIds : ResponsesTo(m) <= 1
  /\ \A m \in MessageIds : handlers[m].msg.type # "create-palette" => ResponsesTo(m) = 0

\* the start of a handler that returns at once changes nothing
OtherTypeChangesNothing ==
  \A m \in MessageIds :
    (handlers[m].pc = "idle" /\ handlers'[m].pc = "done") =>
      UNCHANGED <<figma, variableManager, frameBuilder>>

\* C28: every 'create-palette' message handled leads to exactly one
\* 'palette-created' response, success after the variables (when requested)
\* and the frame were created, failure with the error message when a step
\* throws; a message of another type gets no response and changes nothing
C28_OneResponse ==
  /\ []ResponsesSound
  /\ [][OtherTypeChangesNothing]_vars
  /\ \A m \in MessageIds : Accepted(m) ~> RespondedOnce(m)

\* one handler has answered with a failure and another with a success
C28_Witness ==
  /\ \E k \in DOMAIN figma.posted : ~figma.posted[k].success
  /\ \E k \in DOMAIN figma.posted :
       figma.posted[k].success /\ handlers[figma.posted[k].message].msg.withVariables
  /\ \A m \in MessageIds : handlers[m].pc = "done"

-----------------------------------------------------------------------------
(* AppState: the cascade of a notification *)

\* the observer raises "colors" alone, once, by one generatePalette call, and
\* raises nothing while it handles "colors"
CascadeBounded ==
  /\ Len(callStack) <= 2
  /\ cascade.calls <= 1
  /\ Len(cascade.raised) = cascade.calls
  /\ \A k \in DOMAIN cascade.raised : cascade.raised[k] = "colors"
  /\ Len(callStack) = 2 => Top.changeType = "colors" /\ callStack[1].changeType # "colors"
  /\ (callStack # <<>> /\ callStack[1].changeType = "colors") => cascade.raised = <<>>

\* C29: every notification triggers a finite cascade: the observer's handling
\* of a change raises only "colors", the handling of "colors" raises nothing,
\* and the notification ends after at most one generatePalette call
C29_FiniteCascade ==
  /\ []CascadeBounded
  /\ (callStack # <<>>) ~> (callStack = <<>>)

\* the cascade of a "preset" notification has ended
C29_Witness ==
  /\ callStack = <<>>
  /\ handled # <<>> /\ handled[Len(handled)] = "preset"
  /\ cascade.calls = 1 /\ cascade.raised = <<"colors">>

-----------------------------------------------------------------------------
(* generateDesaturatedCurve against generateCurvePoints *)

\* every point of the desaturated curve has x <= max(0.005, saturationPercent/100)
CompressedWithinFactor ==
  \A k \in DOMAIN desaturatedCurve.curve :
    RLe(desaturatedCurve.curve[k].x,
        RMax(minCompressionFactor, RDiv(RInt(desaturatedCurve.saturationPercent), RInt(100))))

\* C30: at saturationPercent = 100 the desaturated curve is the main curve,
\* point by point, for every exponent; and every point of a desaturated
\* curve has x <= max(0.005, saturationPercent / 100)
C30_DesaturatedIsMainAtFull ==
  desaturatedCurve.called =>
    /\ desaturatedCurve.saturationPercent = 100 => desaturatedCurve.curve = desaturatedCurve.main
    /\ CompressedWithinFactor

\* C30, for the exponents from 1/2 on: there nMain - 1 and 1 + (nMain - 1)
\* are computed without rounding, the secondary exponent is nMain, and at
\* saturationPercent = 100 the desaturated curve is the main curve; every
\* point of a desaturated curve has x <= max(0.005, saturationPercent / 100)
C30_DesaturatedIsMainFromOneHalf ==
  desaturatedCurve.called =>
    /\ (desaturatedCurve.saturationPercent = 100 /\ RLe(Rat(1, 2), desaturatedCurve.nMain)) =>
         desaturatedCurve.curve = desaturatedCurve.main
    /\ CompressedWithinFactor

\* a call at 100 percent with an exponent from 1/2 on, other than 1
C30_Witness ==
  /\ desaturatedCurve.called
  /\ desaturatedCurve.saturationPercent = 100
  /\ RLt(One, desaturatedCurve.nMain)
  /\ Len(desaturatedCurve.curve) = Resolution + 1
  /\ desaturatedCurve.curve = desaturatedCurve.main

====
